---- MODULE Spec2Model ----
(***************************************************************************)
(* A model of lotide's federation core: the community inbox                *)
(* (routes/apub/communities.rs), the comment hook and notification         *)
(* generation (main.rs, on_post_add_comment) and the like routes           *)
(* (routes/api/mod.rs).                                                    *)
(*                                                                         *)
(* Conventions.  An SQL NULL / Rust Option is a set with at most one       *)
(* element: {} is None, {x} is Some(x).  A URL is a triple                 *)
(* <<origin, collection, number>>, the way the code formats                *)
(* "{origin}/{collection}/{number}".  A table whose rows carry a serial id *)
(* is a sequence, the id being the index.                                  *)
(***************************************************************************)
EXTENDS Integers, Sequences, FiniteSets, Bags, TLC

VARIABLES
    person,            \* table person: <<[local, ap_id]>>, index = id
    community_follow,  \* table community_follow: set of [community, follower, accepted]
    post,              \* table post: <<[author, community, local, ap_id]>>
    reply,             \* table reply: <<[post, parent, author, local, ap_id]>>
    post_like,         \* table post_like: bag of <<post, person>>
    reply_like,        \* table reply_like: bag of <<reply, person>>
    notification,      \* table notification: bag of [kind, to_user, reply, parent_reply, parent_post]
    task,              \* table task: sequence of task rows, in insertion order
    worker_trigger,    \* tokens pending in the capacity-1 trigger channel
    spawned,           \* futures handed to tokio::spawn and not yet finished (bag)
    fetches,           \* outbound HTTP GETs made so far (bag of URLs)
    processed,         \* <<inbox, outer activity id>> pairs answered 202 (history)
    nreq,              \* number of HTTP requests handled so far
    last,              \* the last inbox request handled and the response sent for it
    requests,          \* requests and calls handled in steps: bag of [op, user, target, pc, status, inserted]
    local_post_like_undo,  \* table local_post_like_undo: <<[post, person]>>, index = id
    local_reply_like_undo, \* table local_reply_like_undo: <<[reply, person]>>, index = id
    worker,            \* the task worker: [pc, done], done = ids of the task rows it has claimed
    local_actor_name,  \* table local_actor_name: set of reserved names
    community_fetched  \* rows of table community stored by actor fetches, after the rows of `community`

vars == <<person, community_follow, post, reply, post_like, reply_like,
          notification, task, worker_trigger, spawned, fetches, processed,
          nreq, last, requests, local_post_like_undo, local_reply_like_undo, worker,
                   local_actor_name, community_fetched>>

dbvars == <<person, community_follow, post, reply, post_like, reply_like,
            notification, task, local_post_like_undo, local_reply_like_undo,
            local_actor_name, community_fetched>>

(***************************************************************************)
(* Bounds of the model.                                                    *)
(***************************************************************************)
MaxInboxPosts == 2

MaxReplies == 2

MaxLikeRequests == 3

MaxUnlikeRequests == 2

MaxEnqueues == 3

MaxPostRequests == 2

MaxUserRequests == 3

MaxServed == 4

MaxDeleteRequests == 3

MaxAuthRequests == 2

MaxReplyRequests == 2

(***************************************************************************)
(* Identity and addressing.                                                *)
(***************************************************************************)
HostUrlApub == "local"

PeerUrl == "peer"

None == {}

Some(x) == {x}

Unwrap(o) == CHOOSE x \in o : TRUE

get_local_community_apub_id(community_id) == <<HostUrlApub, "communities", community_id>>

get_local_person_apub_id(user_id) == <<HostUrlApub, "users", user_id>>

(***************************************************************************)
(* The community table is not written by any modelled operation: community *)
(* 1 is owned by this instance, community 2 lives on the peer, and no row  *)
(* has id 3.                                                               *)
(***************************************************************************)
community ==
    <<[local |-> TRUE, ap_id |-> None, inbox |-> None],
      [local |-> FALSE, ap_id |-> Some(<<PeerUrl, "communities", 1>>),
       inbox |-> Some(<<PeerUrl, "inbox", 0>>)]>>

CommunityPathIds == DOMAIN community \cup {Len(community) + 1}

(***************************************************************************)
(* The remote origin: what a GET of a URL with Accept                      *)
(* application/activity+json answers.  ok = FALSE is a transport error or  *)
(* a non-success status; kind "Garbage" is a body that does not            *)
(* deserialize.  actor is the document's actor / attributedTo, object its  *)
(* object / inReplyTo.                                                     *)
(***************************************************************************)
Doc(ok, kind, actor, object) == [ok |-> ok, kind |-> kind, actor |-> actor, object |-> object]

NoDoc == Doc(FALSE, "", None, None)

PeerUser(n) == <<PeerUrl, "users", n>>

FollowDocs ==
    <<Doc(TRUE, "Follow", Some(PeerUser(1)), Some(get_local_community_apub_id(1))),
      Doc(TRUE, "Follow", Some(PeerUser(2)), Some(get_local_community_apub_id(1))),
      Doc(TRUE, "Follow", Some(PeerUser(1)), Some(get_local_community_apub_id(2))),
      Doc(TRUE, "Follow", Some(PeerUser(1)), Some(get_local_community_apub_id(3))),
      Doc(TRUE, "Follow", None, Some(get_local_community_apub_id(1))),
      Doc(TRUE, "Follow", Some(PeerUser(1)), None),
      NoDoc,
      Doc(TRUE, "Follow", Some(PeerUser(3)), Some(get_local_community_apub_id(1))),
      Doc(TRUE, "Follow", Some(PeerUser(1)), Some(<<PeerUrl, "communities", 1>>)),
      Doc(TRUE, "Garbage", None, None)>>

ActorDocs ==
    <<Doc(TRUE, "Person", None, None),
      Doc(TRUE, "Person", None, None),
      NoDoc>>

PostDocs ==
    <<Doc(TRUE, "Page", Some(PeerUser(1)), None),
      NoDoc>>

CommentDocs ==
    <<Doc(TRUE, "Note", Some(PeerUser(1)), Some(<<PeerUrl, "posts", 1>>))>>

Origin(url) ==
    CASE url[2] = "follows" /\ url[3] \in DOMAIN FollowDocs -> FollowDocs[url[3]]
      [] url[2] = "users" /\ url[3] \in DOMAIN ActorDocs -> ActorDocs[url[3]]
      [] url[2] = "posts" /\ url[3] \in DOMAIN PostDocs -> PostDocs[url[3]]
      [] url[2] = "comments" /\ url[3] \in DOMAIN CommentDocs -> CommentDocs[url[3]]
      [] OTHER -> NoDoc

FollowUrls == {<<PeerUrl, "follows", k>> : k \in DOMAIN FollowDocs}

ObjectUrls == {<<PeerUrl, "posts", k>> : k \in DOMAIN PostDocs}
              \cup {<<PeerUrl, "comments", k>> : k \in DOMAIN CommentDocs}

(***************************************************************************)
(* res_to_error: a response is passed on when its status is a success and  *)
(* is an internal error otherwise.                                         *)
(***************************************************************************)
res_to_error(doc) == IF doc.ok THEN [err |-> FALSE, doc |-> doc] ELSE [err |-> TRUE, doc |-> doc]

(***************************************************************************)
(* The response the server sends for a handler result (main): the          *)
(* handler's own response for Ok and UserError, 500 for internal errors.   *)
(***************************************************************************)
OkResult(status) == [err |-> "none", status |-> status]

UserError(status) == [err |-> "user", status |-> status]

InternalError == [err |-> "internal", status |-> 0]

response_status(result) ==
    CASE result.err = "none" -> result.status
      [] result.err = "user" -> result.status
      [] OTHER -> 500

(***************************************************************************)
(* get_or_fetch_user_local_id: the local id of the person with this ap_id; *)
(* an unknown actor is fetched from its origin and stored.                 *)
(***************************************************************************)
PersonIdsByApId(persons, ap_id) == {i \in DOMAIN persons : persons[i].ap_id = Some(ap_id)}

get_or_fetch_user_local_id(ap_id, persons) ==
    IF PersonIdsByApId(persons, ap_id) # {}
    THEN [err |-> FALSE, id |-> Unwrap(PersonIdsByApId(persons, ap_id)),
          person |-> persons, fetched |-> EmptyBag]
    ELSE IF Origin(ap_id).ok /\ Origin(ap_id).kind = "Person"
         THEN [err |-> FALSE, id |-> Len(persons) + 1,
               person |-> Append(persons, [local |-> FALSE, ap_id |-> Some(ap_id)]),
               fetched |-> SetToBag({ap_id})]
         ELSE [err |-> TRUE, id |-> 0, person |-> persons, fetched |-> SetToBag({ap_id})]

(***************************************************************************)
(* A POST to /communities/{id}/inbox.  sig is the state of the request's   *)
(* Signature header.  A body is malformed (not JSON / not an activity) or  *)
(* an activity of some kind with outer id aid; a Create carries its object *)
(* as a bare URI ("uri"), as an embedded object of kind obj with id oid,   *)
(* or as an array ("array").                                               *)
(***************************************************************************)
Body(malformed, kind, obj, oid, aid) ==
    [malformed |-> malformed, kind |-> kind, obj |-> obj, oid |-> oid, aid |-> aid]

InboxBodies ==
    {Body(TRUE, "", "", None, None)}
    \cup {Body(FALSE, "Like", "", None, Some(<<PeerUrl, "likes", 1>>))}
    \cup {Body(FALSE, "Follow", "", None, None)}
    \cup {Body(FALSE, "Follow", "", None, Some(u)) : u \in FollowUrls}
    \cup {Body(FALSE, "Create", "uri", Some(u), Some(<<PeerUrl, "creates", IF u[2] = "posts" THEN u[3] ELSE 3>>)) : u \in ObjectUrls}
    \cup {Body(FALSE, "Create", "Page", Some(<<PeerUrl, "posts", 1>>), Some(<<PeerUrl, "creates", 1>>)),
          Body(FALSE, "Create", "Note", Some(<<PeerUrl, "comments", 1>>), Some(<<PeerUrl, "creates", 3>>)),
          Body(FALSE, "Create", "Video", Some(<<PeerUrl, "posts", 1>>), Some(<<PeerUrl, "creates", 1>>)),
          Body(FALSE, "Create", "Page", None, Some(<<PeerUrl, "creates", 9>>)),
          Body(FALSE, "Create", "array", None, Some(<<PeerUrl, "creates", 9>>))}

Signatures == {"valid", "invalid", "missing"}

InboxRequests == [sig : Signatures, body : InboxBodies]

(***************************************************************************)
(* The tables and effects a handler run has produced so far.               *)
(***************************************************************************)
Effects(result) ==
    [result |-> result, person |-> person, community_follow |-> community_follow,
     post |-> post, reply |-> reply, spawned |-> spawned, fetches |-> fetches]

(***************************************************************************)
(* handle_recieved_object: store a fetched Page as a post of the community *)
(* and a fetched Note as a reply, keyed by ap_id.                          *)
(***************************************************************************)
PostIdsByApId(posts, ap_id) ==
    {i \in DOMAIN posts :
        \/ posts[i].ap_id = Some(ap_id)
        \/ posts[i].local /\ ap_id = <<HostUrlApub, "posts", i>>}

ReplyIdsByApId(replies, ap_id) == {i \in DOMAIN replies : replies[i].ap_id = Some(ap_id)}

handle_recieved_object(community_id, object_id, obj, e) ==
    IF obj.kind \notin {"Page", "Note"} \/ obj.actor = None \/ community_id \notin DOMAIN community
    THEN [e EXCEPT !.result = IF obj.kind = "Garbage" THEN InternalError ELSE e.result]
    ELSE LET who == get_or_fetch_user_local_id(Unwrap(obj.actor), e.person)
             e1 == [e EXCEPT !.person = who.person, !.fetches = @ (+) who.fetched]
         IN  IF who.err THEN [e1 EXCEPT !.result = InternalError]
             ELSE IF obj.kind = "Page"
             THEN IF PostIdsByApId(e1.post, object_id) # {} THEN e1
                  ELSE [e1 EXCEPT !.post = Append(@, [author |-> Some(who.id),
                                                      community |-> community_id,
                                                      local |-> FALSE,
                                                      ap_id |-> Some(object_id)])]
             ELSE IF obj.object = None
                     \/ PostIdsByApId(e1.post, Unwrap(obj.object)) = {}
                     \/ ReplyIdsByApId(e1.reply, object_id) # {}
                  THEN e1
                  ELSE [e1 EXCEPT !.reply = Append(@, [post |-> Unwrap(PostIdsByApId(e1.post, Unwrap(obj.object))),
                                                       parent |-> None,
                                                       author |-> Some(who.id),
                                                       local |-> FALSE,
                                                       ap_id |-> Some(object_id)])]

(***************************************************************************)
(* handler_communities_inbox_post, the Create arm: the id of the object to *)
(* fetch.  ok = FALSE is the 400 "Missing id in object".                   *)
(***************************************************************************)
create_object_id_any_kind(body) ==
    IF body.obj \in {"Page", "Note"} /\ body.oid = None THEN [ok |-> FALSE, id |-> None]
    ELSE [ok |-> TRUE, id |-> body.oid]

create_object_id(body) ==
    CASE body.obj = "uri" -> [ok |-> TRUE, id |-> body.oid]
      [] body.obj \in {"Page", "Note"} ->
            IF body.oid = None THEN [ok |-> FALSE, id |-> None]
            ELSE [ok |-> TRUE, id |-> body.oid]
      [] OTHER -> [ok |-> TRUE, id |-> None]

\* The Create arm as it would be if the embedded object were handled.
inbox_create_trusts_body(community_id, body, e) ==
    IF body.obj \notin {"Page", "Note"} \/ body.oid = None THEN e
    ELSE handle_recieved_object(community_id, Unwrap(body.oid),
                                Doc(TRUE, body.obj, Some(PeerUser(1)),
                                    Some(<<PeerUrl, "posts", 1>>)), e)

inbox_create(community_id, body, e) ==
    LET oid == create_object_id(body)
    IN  IF ~oid.ok THEN [e EXCEPT !.result = UserError(400)]
        ELSE IF oid.id = None THEN e
        ELSE LET object_id == Unwrap(oid.id)
                 res == res_to_error(Origin(object_id))
                 e1 == [e EXCEPT !.fetches = @ (+) SetToBag({object_id})]
             IN  IF res.err \/ res.doc.kind = "Garbage"
                 THEN [e1 EXCEPT !.result = InternalError]
                 ELSE handle_recieved_object(community_id, object_id, res.doc, e1)

(***************************************************************************)
(* handler_communities_inbox_post, the Follow arm.                         *)
(***************************************************************************)
follow_target_unchecked(target_community, community_id) == TRUE

follow_target_matches(target_community, community_id) ==
    target_community = get_local_community_apub_id(community_id)

community_follow_accepted_default == TRUE

CommunityFollowRow(community_id, follower) ==
    [community |-> community_id, follower |-> follower,
     accepted |-> community_follow_accepted_default]

HasFollow(follows, community_id, follower) ==
    \E r \in follows : r.community = community_id /\ r.follower = follower

\* INSERT INTO community_follow (community, follower): the number of rows
\* inserted, or the unique violation on (community, follower).
insert_community_follow_nothing(follows, community_id, follower) ==
    [err |-> FALSE, row_count |-> 0, community_follow |-> follows]

insert_community_follow(follows, community_id, follower) ==
    IF HasFollow(follows, community_id, follower)
    THEN [err |-> TRUE, row_count |-> 0, community_follow |-> follows]
    ELSE [err |-> FALSE, row_count |-> 1,
          community_follow |-> follows \cup {CommunityFollowRow(community_id, follower)}]

AcceptTask(community_id, follower, activity_id) ==
    [kind |-> "send_community_follow_accept", a |-> community_id, b |-> follower,
     url |-> activity_id]

follow_accept_spawns(row_count, community_id, follower, activity_id) ==
    IF row_count > 0 THEN SetToBag({AcceptTask(community_id, follower, activity_id)})
    ELSE EmptyBag

inbox_follow(community_id, body, e) ==
    IF body.aid = None THEN [e EXCEPT !.result = UserError(400)]
    ELSE
    LET activity_id == Unwrap(body.aid)
        res == res_to_error(Origin(activity_id))
        e1 == [e EXCEPT !.fetches = @ (+) SetToBag({activity_id})]
        follow == res.doc
    IN  IF res.err \/ follow.kind # "Follow" THEN [e1 EXCEPT !.result = InternalError]
        ELSE IF follow.actor = None THEN e1
        ELSE
        LET who == get_or_fetch_user_local_id(Unwrap(follow.actor), e1.person)
            e2 == [e1 EXCEPT !.person = who.person, !.fetches = @ (+) who.fetched]
        IN  IF who.err THEN [e2 EXCEPT !.result = InternalError]
            ELSE IF follow.object = None THEN e2
            ELSE IF ~follow_target_matches(Unwrap(follow.object), community_id) THEN e2
            ELSE IF community_id \notin DOMAIN community THEN e2
            ELSE IF ~community[community_id].local THEN e2
            ELSE
            LET ins == insert_community_follow(e2.community_follow, community_id, who.id)
            IN  IF ins.err THEN [e2 EXCEPT !.result = InternalError]
                ELSE [e2 EXCEPT !.community_follow = ins.community_follow,
                                !.spawned = @ (+) follow_accept_spawns(ins.row_count, community_id,
                                                                       who.id, activity_id)]

(***************************************************************************)
(* handler_communities_inbox_post.                                         *)
(***************************************************************************)
parse_activity(body) == ~body.malformed

inbox_effects(community_id, req) ==
    LET e == Effects(OkResult(202))
    IN  IF ~parse_activity(req.body) THEN [e EXCEPT !.result = InternalError]
        ELSE CASE req.body.kind = "Create" -> inbox_create(community_id, req.body, e)
               [] req.body.kind = "Follow" -> inbox_follow(community_id, req.body, e)
               [] OTHER -> e

handler_communities_inbox_post(community_id, req) ==
    LET e == inbox_effects(community_id, req)
        status == response_status(e.result)
    IN  /\ nreq < MaxInboxPosts
        /\ person' = e.person
        /\ community_follow' = e.community_follow
        /\ post' = e.post
        /\ reply' = e.reply
        /\ spawned' = e.spawned
        /\ fetches' = e.fetches
        /\ processed' = IF status = 202
                        THEN processed \cup {<<community_id, a>> : a \in req.body.aid}
                        ELSE processed
        /\ nreq' = nreq + 1
        /\ last' = [op |-> "inbox", community_id |-> community_id, req |-> req,
                    status |-> status]
        /\ UNCHANGED <<post_like, reply_like, notification, task, worker_trigger, requests,
                       local_post_like_undo, local_reply_like_undo, worker,
                   local_actor_name, community_fetched>>

(***************************************************************************)
(* enqueue_task: the task row is inserted, then the worker is woken with a *)
(* non-blocking send into the capacity-1 channel (a full channel is fine). *)
(***************************************************************************)
\* start_worker: the worker waits on the trigger channel and has claimed nothing.
WorkerStarted == [pc |-> "recv", done |-> {}]

\* TaskDef::MAX_ATTEMPTS of the task kinds.
MAX_ATTEMPTS == 8

TaskRow_without_max_attempts(kind, inbox, sign_as, object) ==
    [kind |-> kind, inbox |-> inbox, sign_as |-> sign_as, object |-> object,
     attempts |-> 0, max_attempts |-> 0]

\* The row of INSERT INTO task (kind, params, max_attempts, created_at):
\* kind and params of the task, max_attempts of its kind, and attempts at
\* the default of the column.
TaskRow(kind, inbox, sign_as, object) ==
    [kind |-> kind, inbox |-> inbox, sign_as |-> sign_as, object |-> object,
     attempts |-> 0, max_attempts |-> MAX_ATTEMPTS]

try_send_never_sends(tokens) == tokens

try_send(tokens) == IF tokens < 1 THEN 1 ELSE tokens

DeliverToFollowers(community_id, object) ==
    TaskRow("DeliverToFollowers", None, <<"community", community_id>>, object)

DeliverToInbox(inbox, sign_as, object) == TaskRow("DeliverToInbox", inbox, sign_as, object)

(***************************************************************************)
(* send_community_follow_accept, run by the runtime some time after it was *)
(* spawned: the Accept for the follow is queued for the follower's inbox.  *)
(***************************************************************************)
send_community_follow_accept(t) ==
    /\ t \in BagToSet(spawned)
    /\ t.kind = "send_community_follow_accept"
    /\ spawned' = spawned (-) SetToBag({t})
    /\ task' = Append(task, TaskRow("DeliverToInbox", person[t.b].ap_id,
                                    <<"community", t.a>>, <<"Accept", t.url>>))
    /\ worker_trigger' = try_send(worker_trigger)
    /\ UNCHANGED <<person, community_follow, post, reply, post_like, reply_like,
                   notification, fetches, processed, nreq, last, requests, local_post_like_undo, local_reply_like_undo, worker,
                   local_actor_name, community_fetched>>

(***************************************************************************)
(* The initial state: two local users, one known user of the peer, no      *)
(* posts, follows or tasks.                                                *)
(***************************************************************************)
InitPersons ==
    <<[local |-> TRUE, ap_id |-> None],
      [local |-> TRUE, ap_id |-> None],
      [local |-> FALSE, ap_id |-> Some(PeerUser(1))]>>

NoRequest == [op |-> "none", community_id |-> 0,
              req |-> [sig |-> "valid", body |-> Body(TRUE, "", "", None, None)],
              status |-> 0]

Init ==
    /\ person = InitPersons
    /\ community_follow = {}
    /\ post = <<>>
    /\ reply = <<>>
    /\ post_like = EmptyBag
    /\ reply_like = EmptyBag
    /\ notification = EmptyBag
    /\ task = <<>>
    /\ worker_trigger = 0
    /\ spawned = EmptyBag
    /\ fetches = EmptyBag
    /\ processed = {}
    /\ nreq = 0
    /\ last = NoRequest
    /\ requests = EmptyBag
    /\ local_post_like_undo = <<>>
    /\ local_reply_like_undo = <<>>
    /\ worker = WorkerStarted
    /\ local_actor_name = {}
    /\ community_fetched = <<>>

InboxPost == \E c \in CommunityPathIds, req \in InboxRequests : handler_communities_inbox_post(c, req)

RunAccept == \E t \in BagToSet(spawned) : send_community_follow_accept(t)

Next ==
    \/ InboxPost
    \/ RunAccept

Spec == Init /\ [][Next]_vars

(***************************************************************************)
(* Login (authenticate, require_login).  The Authorization header of a     *)
(* request is absent, carries something that is not a UUID, or carries a   *)
(* UUID; the login table maps the tokens of users 1 and 2.                 *)
(***************************************************************************)
Tokens == {"absent", "not-a-uuid", "uuid-1", "uuid-2", "uuid-9"}

is_uuid(token) == token \in {"uuid-1", "uuid-2", "uuid-9"}

login == ("uuid-1" :> 1) @@ ("uuid-2" :> 2)

authenticate_any_uuid(token) ==
    IF token = "absent" THEN None
    ELSE IF ~is_uuid(token) THEN None
    ELSE IF token \in DOMAIN login THEN Some(login[token])
    ELSE Some(1)

authenticate(token) ==
    IF token = "absent" THEN None
    ELSE IF ~is_uuid(token) THEN None
    ELSE IF token \in DOMAIN login THEN Some(login[token])
    ELSE None

(***************************************************************************)
(* The body of a reply-creation request: bytes that do not deserialize, or *)
(* JSON carrying content_text, content_markdown, both or neither.          *)
(***************************************************************************)
ReplyBodies ==
    {[malformed |-> TRUE, content_text |-> FALSE, content_markdown |-> FALSE]}
    \cup [malformed : {FALSE}, content_text : BOOLEAN, content_markdown : BOOLEAN]

reply_body_valid_with_any_content(body) == body.content_markdown \/ body.content_text

\* lines 1238 and 1680: content_markdown.is_some() ^ content_text.is_some()
reply_body_valid(body) == (body.content_markdown /\ ~body.content_text)
                          \/ (~body.content_markdown /\ body.content_text)

(***************************************************************************)
(* on_post_add_comment.  CommentInfo is what the caller hands over; the    *)
(* spawned future reads the post (with its community and author) and the   *)
(* parent reply (with its author), then decides on one notification and    *)
(* on the federation of the comment.  A row.get of a NULL into a           *)
(* non-optional value panics, which ends the future without any effect.    *)
(***************************************************************************)
CommentInfo(id, author, post_id, parent, is_local) ==
    [id |-> id, author |-> author, post |-> post_id, parent |-> parent, local |-> is_local]

CommentHook(comment) == [kind |-> "on_post_add_comment", comment |-> comment]

on_post_add_comment(comment, tasks) == tasks (+) SetToBag({CommentHook(comment)})

\* lines 486-504: the parent reply as (local, author_local_id), None when it
\* is remote and has no ap_id; panics for a local reply without an author.
parent_info(comment) ==
    IF comment.parent = None THEN [panic |-> FALSE, info |-> None]
    ELSE LET row == reply[Unwrap(comment.parent)]
         IN  IF row.local
             THEN IF row.author = None THEN [panic |-> TRUE, info |-> None]
                  ELSE [panic |-> FALSE,
                        info |-> Some([local |-> TRUE, author_local_id |-> row.author])]
             ELSE IF row.ap_id = None THEN [panic |-> FALSE, info |-> None]
                  ELSE [panic |-> FALSE,
                        info |-> Some([local |-> FALSE, author_local_id |-> row.author])]

NotificationRow(kind, to_user, reply_id, parent_reply, parent_post) ==
    [kind |-> kind, to_user |-> to_user, reply |-> reply_id,
     parent_reply |-> parent_reply, parent_post |-> parent_post]

reply_reply_no_self_check(parent_local, parent_author_id, comment_author) == parent_local

post_reply_notify_remote_too(post_local, post_author_id, comment_author) ==
    post_author_id # comment_author

\* line 564
reply_reply_wanted(parent_local, parent_author_id, comment_author) ==
    parent_local /\ parent_author_id # comment_author

\* line 582
post_reply_wanted(post_local, post_author_id, comment_author) ==
    post_local /\ post_author_id # comment_author

\* lines 560-600: the notification rows whose INSERT is spawned (none or one).
comment_notifications(comment, pinfo) ==
    IF comment.parent # None
    THEN IF pinfo = None THEN {}
         ELSE LET p == Unwrap(pinfo)
              IN  IF reply_reply_wanted(p.local, p.author_local_id, comment.author)
                     /\ p.author_local_id # None
                  THEN {NotificationRow("reply_reply", Unwrap(p.author_local_id), comment.id,
                                        comment.parent, None)}
                  ELSE {}
    ELSE IF post_reply_wanted(post[comment.post].local, post[comment.post].author, comment.author)
         THEN {NotificationRow("post_reply", Unwrap(post[comment.post].author), comment.id,
                               None, Some(comment.post))}
         ELSE {}

\* lines 602-617: where the comment is federated to.
comment_federation(comment) ==
    LET row == post[comment.post]
        post_ap_id == IF row.local THEN Some(<<HostUrlApub, "posts", comment.post>>) ELSE row.ap_id
    IN  IF post_ap_id = None THEN {}
        ELSE IF community[row.community].local
             THEN {[kind |-> "announce_community_comment", community |-> row.community,
                    comment |-> comment.id]}
             ELSE IF comment.local
                  THEN {[kind |-> "send_comment_to_community", community |-> row.community,
                         comment |-> comment.id]}
                  ELSE {}

\* lines 478-621: the future spawned by on_post_add_comment.
run_on_post_add_comment(t) ==
    /\ t \in BagToSet(spawned)
    /\ t.kind = "on_post_add_comment"
    /\ LET comment == t.comment
           pinfo == parent_info(comment)
           panics == \/ pinfo.panic
                     \/ comment.parent = None /\ post[comment.post].author = None
           rest == spawned (-) SetToBag({t})
       IN  IF panics \/ comment.post \notin DOMAIN post
           THEN spawned' = rest
           ELSE spawned' = rest
                  (+) SetToBag({[kind |-> "insert_notification", row |-> n] :
                                    n \in comment_notifications(comment, pinfo.info)})
                  (+) SetToBag(comment_federation(comment))
    /\ UNCHANGED <<person, community_follow, post, reply, post_like, reply_like,
                   notification, task, worker_trigger, fetches, processed, nreq, last, requests, local_post_like_undo, local_reply_like_undo, worker,
                   local_actor_name, community_fetched>>

\* lines 568-576 and 588-596: the spawned INSERT INTO notification.
run_insert_notification(t) ==
    /\ t \in BagToSet(spawned)
    /\ t.kind = "insert_notification"
    /\ spawned' = spawned (-) SetToBag({t})
    /\ notification' = notification (+) SetToBag({t.row})
    /\ UNCHANGED <<person, community_follow, post, reply, post_like, reply_like,
                   task, worker_trigger, fetches, processed, nreq, last, requests, local_post_like_undo, local_reply_like_undo, worker,
                   local_actor_name, community_fetched>>

\* spawn_announce_community_comment and spawn_enqueue_send_comment_to_community:
\* the Announce goes to the followers of the local community, the Create to
\* the inbox of the remote community.
run_comment_federation(t) ==
    /\ t \in BagToSet(spawned)
    /\ t.kind \in {"announce_community_comment", "send_comment_to_community"}
    /\ spawned' = spawned (-) SetToBag({t})
    /\ task' = Append(task,
                 IF t.kind = "announce_community_comment"
                 THEN DeliverToFollowers(t.community, <<"Announce", <<HostUrlApub, "comments", t.comment>>>>)
                 ELSE DeliverToInbox(community[t.community].inbox,
                                     <<"person", Unwrap(reply[t.comment].author)>>,
                                     <<"Create", <<HostUrlApub, "comments", t.comment>>>>))
    /\ worker_trigger' = try_send(worker_trigger)
    /\ UNCHANGED <<person, community_follow, post, reply, post_like, reply_like,
                   notification, fetches, processed, nreq, last, requests, local_post_like_undo, local_reply_like_undo, worker,
                   local_actor_name, community_fetched>>

(***************************************************************************)
(* POST /posts/{id}/replies and POST /comments/{id}/replies.               *)
(***************************************************************************)
ReplyRow(post_id, parent, author, is_local, ap_id) ==
    [post |-> post_id, parent |-> parent, author |-> author, local |-> is_local, ap_id |-> ap_id,
     content_text |-> Some("text"), deleted |-> FALSE]

ApiFrame == UNCHANGED <<person, community_follow, post, post_like, reply_like,
                        notification, task, worker_trigger, fetches, processed, nreq, last, requests, local_post_like_undo, local_reply_like_undo, worker,
                   local_actor_name, community_fetched>>

require_login(token) ==
    IF authenticate(token) = None THEN UserError(401) ELSE OkResult(200)

\* The response of POST /posts/{id}/replies: 401 without a login, an internal
\* error for a body that does not deserialize, 400 for a body without exactly
\* one content field, an internal error when the INSERT violates the foreign
\* key on post, else 200 with the new id.
posts_replies_create_result(token, post_id, body) ==
    IF require_login(token).err # "none" THEN require_login(token)
    ELSE IF body.malformed THEN InternalError
    ELSE IF ~reply_body_valid(body) THEN UserError(400)
    ELSE IF post_id \notin DOMAIN post THEN InternalError
    ELSE OkResult(200)

\* lines 1245-1276: the INSERT and the call of on_post_add_comment.
posts_replies_create_insert(token, post_id, body) ==
    LET user == authenticate(token)
        reply_id == Len(reply) + 1
    IN  IF posts_replies_create_result(token, post_id, body).err # "none"
        THEN UNCHANGED <<reply, spawned>>
        ELSE /\ Len(reply) < MaxReplies
             /\ reply' = Append(reply, ReplyRow(post_id, None, user, TRUE, None))
             /\ spawned' = on_post_add_comment(
                              CommentInfo(reply_id, user, post_id, None, TRUE), spawned)

route_unstable_posts_replies_create(token, post_id, body) ==
    ApiFrame /\ posts_replies_create_insert(token, post_id, body)

\* The response of POST /comments/{id}/replies: as above, and 404 when the
\* parent comment does not exist.
comments_replies_create_result(token, parent_id, body) ==
    IF require_login(token).err # "none" THEN require_login(token)
    ELSE IF body.malformed THEN InternalError
    ELSE IF ~reply_body_valid(body) THEN UserError(400)
    ELSE IF parent_id \notin DOMAIN reply THEN UserError(404)
    ELSE OkResult(200)

reply_parent_is_itself(parent_id) == Some(Len(reply) + 1)

\* lines 1710-1713: the parent column of the INSERT is the id from the path.
reply_parent(parent_id) == Some(parent_id)

parent_post_is_newest(parent_id) == Len(post)

\* lines 1699-1713: SELECT post FROM reply WHERE id=$1.
parent_post(parent_id) == reply[parent_id].post

\* lines 1699-1729: the INSERT and the call of on_post_add_comment.
comments_replies_create_insert(token, parent_id, body) ==
    LET user == authenticate(token)
        reply_id == Len(reply) + 1
    IN  IF comments_replies_create_result(token, parent_id, body).err # "none"
        THEN UNCHANGED <<reply, spawned>>
        ELSE /\ Len(reply) < MaxReplies
             /\ reply' = Append(reply, ReplyRow(parent_post(parent_id),
                                                reply_parent(parent_id), user, TRUE, None))
             /\ spawned' = on_post_add_comment(
                              CommentInfo(reply_id, user, parent_post(parent_id),
                                          Some(parent_id), TRUE), spawned)

route_unstable_comments_replies_create(token, parent_id, body) ==
    ApiFrame /\ comments_replies_create_insert(token, parent_id, body)

(***************************************************************************)
(* A comment of the peer arriving (a Note stored by the receiving side,    *)
(* which then calls on_post_add_comment with the comment's ap_id): its     *)
(* author is a known remote person or unknown.                             *)
(***************************************************************************)
RemotePersonIds == {i \in DOMAIN person : ~person[i].local}

receive_remote_comment(author, post_id, parent) ==
    LET reply_id == Len(reply) + 1
    IN  /\ Len(reply) < MaxReplies
        /\ \A p \in parent : p \in DOMAIN reply /\ reply[p].post = post_id
        /\ reply' = Append(reply, ReplyRow(post_id, parent, author, FALSE,
                                           Some(<<PeerUrl, "comments", reply_id>>)))
        /\ spawned' = on_post_add_comment(
                         CommentInfo(reply_id, author, post_id, parent, FALSE), spawned)
        /\ ApiFrame

(***************************************************************************)
(* The comment specification: a fixed set of posts, comments created by    *)
(* the two local users and by the peer, and the futures they spawn run in  *)
(* any order.                                                              *)
(***************************************************************************)
PostRow(author, community_id, is_local, ap_id) ==
    [author |-> author, community |-> community_id, local |-> is_local, ap_id |-> ap_id]

InitPostTables ==
    {<<PostRow(Some(1), 1, TRUE, None),
       PostRow(Some(3), 2, FALSE, Some(<<PeerUrl, "posts", 1>>))>>,
     <<PostRow(Some(2), 2, TRUE, None),
       PostRow(None, 1, FALSE, Some(<<PeerUrl, "posts", 2>>))>>}

InitComments ==
    /\ person = InitPersons
    /\ community_follow = {}
    /\ post \in InitPostTables
    /\ reply = <<>>
    /\ post_like = EmptyBag
    /\ reply_like = EmptyBag
    /\ notification = EmptyBag
    /\ task = <<>>
    /\ worker_trigger = 0
    /\ spawned = EmptyBag
    /\ fetches = EmptyBag
    /\ processed = {}
    /\ nreq = 0
    /\ last = NoRequest
    /\ requests = EmptyBag
    /\ local_post_like_undo = <<>>
    /\ local_reply_like_undo = <<>>
    /\ worker = WorkerStarted
    /\ local_actor_name = {}
    /\ community_fetched = <<>>

PostsRepliesCreate ==
    \E token \in Tokens, post_id \in DOMAIN post \cup {Len(post) + 1}, body \in ReplyBodies :
        route_unstable_posts_replies_create(token, post_id, body)

CommentsRepliesCreate ==
    \E token \in Tokens, parent_id \in DOMAIN reply \cup {Len(reply) + 1}, body \in ReplyBodies :
        route_unstable_comments_replies_create(token, parent_id, body)

ReceiveRemoteComment ==
    \E author \in {None} \cup {Some(i) : i \in RemotePersonIds}, post_id \in DOMAIN post,
       parent \in {None} \cup {Some(i) : i \in DOMAIN reply} :
        receive_remote_comment(author, post_id, parent)

RunCommentHook == \E t \in BagToSet(spawned) : run_on_post_add_comment(t)

RunInsertNotification == \E t \in BagToSet(spawned) : run_insert_notification(t)

RunCommentFederation == \E t \in BagToSet(spawned) : run_comment_federation(t)

NextComments ==
    \/ PostsRepliesCreate
    \/ CommentsRepliesCreate
    \/ ReceiveRemoteComment
    \/ RunCommentHook
    \/ RunInsertNotification
    \/ RunCommentFederation

SpecComments == InitComments /\ [][NextComments]_vars

(***************************************************************************)
(* POST /posts/{id}/like and POST /comments/{id}/like.  A handler runs in  *)
(* two database round trips, and other requests run between them: the      *)
(* login lookup, then the INSERT ... ON CONFLICT DO NOTHING, after which    *)
(* the handler spawns the federation of the like (only when the INSERT      *)
(* stored a row) and answers.  A request is kept with its position (pc)     *)
(* and, once answered, its status.                                         *)
(***************************************************************************)
ApiRequest(op, user, target, pc, status, inserted) ==
    [op |-> op, user |-> user, target |-> target, pc |-> pc, status |-> status,
     inserted |-> inserted]

insert_like_unconditionally(table, row) ==
    [table |-> table (+) SetToBag({row}), row_count |-> 1]

\* INSERT INTO post_like / reply_like ... ON CONFLICT (target, person) DO NOTHING
insert_like(table, row) ==
    IF BagIn(row, table) THEN [table |-> table, row_count |-> 0]
    ELSE [table |-> table (+) SetToBag({row}), row_count |-> 1]

\* An open transaction of an unlike (unlike_op names the route) has deleted
\* the row (target, user); the INSERT of that row waits for it to end.
like_row_locked(unlike_op, target, user) ==
    \E r \in BagToSet(requests) :
        r.op = unlike_op /\ r.pc = "commit" /\ r.inserted
            /\ r.target = target /\ r.user = Some(user)

LikeTask(kind, target, user) == [kind |-> kind, target |-> target, user |-> user]

LikeFrame == UNCHANGED <<person, community_follow, post, reply, notification, task,
                         worker_trigger, fetches, processed, nreq, last,
                         local_post_like_undo, local_reply_like_undo, worker,
                   local_actor_name, community_fetched>>

\* lines 1036-1038: the request arrives and the login is looked up.
route_unstable_posts_like(token, post_id) ==
    /\ BagCardinality(requests) < MaxLikeRequests
    /\ requests' = requests (+) SetToBag({
           IF require_login(token).err # "none"
           THEN ApiRequest("posts_like", None, post_id, "done",
                           response_status(require_login(token)), FALSE)
           ELSE ApiRequest("posts_like", authenticate(token), post_id, "insert", 0, FALSE)})
    /\ UNCHANGED <<post_like, reply_like, spawned>>
    /\ LikeFrame

\* lines 1040-1112: the INSERT (an internal error when the post does not
\* exist), the spawn and the empty 204 response.
route_unstable_posts_like_insert(r) ==
    /\ r \in BagToSet(requests)
    /\ r.op = "posts_like"
    /\ r.pc = "insert"
    /\ ~like_row_locked("posts_unlike", r.target, Unwrap(r.user))
    /\ LET user == Unwrap(r.user)
           ins == insert_like(post_like, <<r.target, user>>)
           rest == requests (-) SetToBag({r})
       IN  IF r.target \notin DOMAIN post
           THEN /\ requests' = rest (+) SetToBag({ApiRequest(r.op, r.user, r.target, "done",
                                                   response_status(InternalError), FALSE)})
                /\ UNCHANGED <<post_like, spawned>>
           ELSE /\ post_like' = ins.table
                /\ spawned' = IF ins.row_count > 0
                              THEN spawned (+) SetToBag({LikeTask("post_like", r.target, user)})
                              ELSE spawned
                /\ requests' = rest (+) SetToBag({ApiRequest(r.op, r.user, r.target, "done",
                                                   response_status(OkResult(204)),
                                                   ins.row_count > 0)})
    /\ UNCHANGED reply_like
    /\ LikeFrame

\* lines 1479-1481
route_unstable_comments_like(token, comment_id) ==
    /\ BagCardinality(requests) < MaxLikeRequests
    /\ requests' = requests (+) SetToBag({
           IF require_login(token).err # "none"
           THEN ApiRequest("comments_like", None, comment_id, "done",
                           response_status(require_login(token)), FALSE)
           ELSE ApiRequest("comments_like", authenticate(token), comment_id, "insert", 0, FALSE)})
    /\ UNCHANGED <<post_like, reply_like, spawned>>
    /\ LikeFrame

\* lines 1483-1555
route_unstable_comments_like_insert(r) ==
    /\ r \in BagToSet(requests)
    /\ r.op = "comments_like"
    /\ r.pc = "insert"
    /\ ~like_row_locked("comments_unlike", r.target, Unwrap(r.user))
    /\ LET user == Unwrap(r.user)
           ins == insert_like(reply_like, <<r.target, user>>)
           rest == requests (-) SetToBag({r})
       IN  IF r.target \notin DOMAIN reply
           THEN /\ requests' = rest (+) SetToBag({ApiRequest(r.op, r.user, r.target, "done",
                                                   response_status(InternalError), FALSE)})
                /\ UNCHANGED <<reply_like, spawned>>
           ELSE /\ reply_like' = ins.table
                /\ spawned' = IF ins.row_count > 0
                              THEN spawned (+) SetToBag({LikeTask("reply_like", r.target, user)})
                              ELSE spawned
                /\ requests' = rest (+) SetToBag({ApiRequest(r.op, r.user, r.target, "done",
                                                   response_status(OkResult(204)),
                                                   ins.row_count > 0)})
    /\ UNCHANGED post_like
    /\ LikeFrame

(***************************************************************************)
(* The future a like spawns: it builds the Like of the user for the        *)
(* target's ap_id, queues one DeliverToInbox per distinct inbox (the        *)
(* author's when the target is remote, the community's when the community   *)
(* is remote; the HashSet is walked in any order) and, when the community   *)
(* is local, queues the forward to the community's followers.              *)
(***************************************************************************)
\* COALESCE(ap_shared_inbox, ap_inbox) of a person: the users of a remote
\* host share that host's inbox, local users have none.
person_inbox(author) ==
    IF author = None THEN None
    ELSE IF person[Unwrap(author)].local THEN None
    ELSE Some(<<Unwrap(person[Unwrap(author)].ap_id)[1], "inbox", 0>>)

get_local_post_apub_id(post_id) == <<HostUrlApub, "posts", post_id>>

get_local_comment_apub_id(comment_id) == <<HostUrlApub, "comments", comment_id>>

local_like_to_ap(target_ap_id, user) ==
    <<"Like", get_local_person_apub_id(user), target_ap_id>>

enqueue_forward_to_community_followers(community_id, body) ==
    DeliverToFollowers(community_id, body)

Orderings(S) ==
    {s \in [1..Cardinality(S) -> S] : \A i, j \in DOMAIN s : i # j => s[i] # s[j]}

\* One delivery for the author's inbox and one for the community's, equal or not.
like_deliveries_per_inbox(target_local, target_ap_id, author, community_id, user) ==
    LET author_inbox == IF ~target_local THEN person_inbox(author) ELSE {}
        community_inbox == IF ~community[community_id].local
                           THEN community[community_id].inbox ELSE {}
        body == local_like_to_ap(target_ap_id, user)
        deliver(inboxes) == {[i \in DOMAIN order |->
                                 DeliverToInbox(Some(order[i]), <<"person", user>>, body)] :
                             order \in Orderings(inboxes)}
    IN  {a \o c \o (IF community[community_id].local
                    THEN <<enqueue_forward_to_community_followers(community_id, body)>>
                    ELSE <<>>) : a \in deliver(author_inbox), c \in deliver(community_inbox)}

\* The task rows one like federation adds, given the target's row and the
\* community it belongs to.
like_deliveries(target_local, target_ap_id, author, community_id, user) ==
    LET inboxes == (IF ~target_local THEN person_inbox(author) ELSE {})
                   \cup (IF ~community[community_id].local
                         THEN community[community_id].inbox ELSE {})
        body == local_like_to_ap(target_ap_id, user)
    IN  {[i \in DOMAIN order |-> DeliverToInbox(Some(order[i]), <<"person", user>>, body)]
            \o (IF community[community_id].local
                THEN <<enqueue_forward_to_community_followers(community_id, body)>>
                ELSE <<>>) : order \in Orderings(inboxes)}

run_like_effects(target_local, target_ap_id, author, community_id, t) ==
    /\ spawned' = spawned (-) SetToBag({t})
    /\ IF ~target_local /\ target_ap_id = None
       THEN UNCHANGED <<task, worker_trigger>>
       ELSE \E rows \in like_deliveries(target_local, Unwrap(target_ap_id), author,
                                        community_id, t.user) :
               /\ task' = task \o rows
               /\ worker_trigger' = IF rows = <<>> THEN worker_trigger
                                    ELSE try_send(worker_trigger)
    /\ UNCHANGED <<person, community_follow, post, reply, post_like, reply_like,
                   notification, fetches, processed, nreq, last, requests, local_post_like_undo, local_reply_like_undo, worker,
                   local_actor_name, community_fetched>>

\* lines 1046-1109
run_post_like_task(t) ==
    /\ t \in BagToSet(spawned)
    /\ t.kind = "post_like"
    /\ LET row == post[t.target]
       IN  run_like_effects(row.local,
                            IF row.local THEN Some(get_local_post_apub_id(t.target))
                            ELSE row.ap_id,
                            row.author, row.community, t)

\* lines 1489-1552
run_comment_like_task(t) ==
    /\ t \in BagToSet(spawned)
    /\ t.kind = "reply_like"
    /\ LET row == reply[t.target]
       IN  run_like_effects(row.local,
                            IF row.local THEN Some(get_local_comment_apub_id(t.target))
                            ELSE row.ap_id,
                            row.author, post[row.post].community, t)

(***************************************************************************)
(* POST /posts/{id}/unlike and POST /comments/{id}/unlike.  After the      *)
(* login lookup the handler opens a transaction, DELETEs the like row and,  *)
(* when a row was deleted, INSERTs an undo row with a fresh uuid; then it   *)
(* commits, spawns the federation of the Undo (only for a new undo row)     *)
(* and answers.  Until the commit the deleted row is locked: a second       *)
(* DELETE or an INSERT of the same (target, person) waits for the           *)
(* transaction to end.  A database error inside the transaction drops it,   *)
(* which rolls it back, and the request is answered with an internal        *)
(* error.  An undo row's id is its index in the table.                      *)
(***************************************************************************)
UndoTask(kind, target, user, undo) ==
    [kind |-> kind, target |-> target, user |-> user, undo |-> undo]

UnlikeFrame == UNCHANGED <<person, community_follow, post, reply, notification, task,
                           worker_trigger, fetches, processed, nreq, last, worker,
                           local_actor_name, community_fetched>>

\* lines 1122-1124 and 1565-1567: the request arrives and the login is looked up.
unlike_login(op, token, target) ==
    /\ BagCardinality(requests) < MaxUnlikeRequests
    /\ requests' = requests (+) SetToBag({
           IF require_login(token).err # "none"
           THEN ApiRequest(op, None, target, "done",
                           response_status(require_login(token)), FALSE)
           ELSE ApiRequest(op, authenticate(token), target, "delete", 0, FALSE)})
    /\ UNCHANGED <<post_like, reply_like, spawned, local_post_like_undo, local_reply_like_undo, worker,
                   local_actor_name, community_fetched>>
    /\ UnlikeFrame

\* lines 1127-1148 and 1570-1591: DELETE and, for row_count > 0, INSERT of the
\* undo row, both inside the transaction and invisible until it commits.
unlike_delete(op, table, r) ==
    /\ r \in BagToSet(requests)
    /\ r.op = op
    /\ r.pc = "delete"
    /\ ~like_row_locked(op, r.target, Unwrap(r.user))
    /\ requests' = (requests (-) SetToBag({r})) (+) SetToBag({
           ApiRequest(op, r.user, r.target, "commit", 0,
                      BagIn(<<r.target, Unwrap(r.user)>>, table))})
    /\ UNCHANGED <<post_like, reply_like, spawned, local_post_like_undo, local_reply_like_undo, worker,
                   local_actor_name, community_fetched>>
    /\ UnlikeFrame

\* The transaction is dropped on an error of the INSERT or of the commit.
unlike_rollback(r) ==
    /\ r \in BagToSet(requests)
    /\ r.op \in {"posts_unlike", "comments_unlike"}
    /\ r.pc = "commit"
    /\ requests' = (requests (-) SetToBag({r})) (+) SetToBag({
           ApiRequest(r.op, r.user, r.target, "done", response_status(InternalError), FALSE)})
    /\ UNCHANGED <<post_like, reply_like, spawned, local_post_like_undo, local_reply_like_undo, worker,
                   local_actor_name, community_fetched>>
    /\ UnlikeFrame

unlike_commit_keeps_like(table, row) == table

\* The DELETE of the transaction as it takes effect at the commit.
unlike_commit_like(table, row) == table (-) SetToBag({row})

route_unstable_posts_unlike(token, post_id) == unlike_login("posts_unlike", token, post_id)

route_unstable_posts_unlike_delete(r) == unlike_delete("posts_unlike", post_like, r)

route_unstable_posts_unlike_spawns_uncommitted(r) ==
    /\ r \in BagToSet(requests)
    /\ r.op = "posts_unlike"
    /\ r.pc = "commit"
    /\ spawned' = spawned (+) SetToBag({
           UndoTask("post_like_undo", r.target, Unwrap(r.user),
                    Len(local_post_like_undo) + 1)})
    /\ requests' = (requests (-) SetToBag({r})) (+) SetToBag({
           ApiRequest(r.op, r.user, r.target, "done", 204, FALSE)})
    /\ UNCHANGED <<post_like, reply_like, local_post_like_undo, local_reply_like_undo>>
    /\ UnlikeFrame

\* lines 1150-1214: commit, spawn for a new undo row, empty 204 response.
route_unstable_posts_unlike_commit(r) ==
    /\ r \in BagToSet(requests)
    /\ r.op = "posts_unlike"
    /\ r.pc = "commit"
    /\ LET user == Unwrap(r.user)
           new_undo == Len(local_post_like_undo) + 1
       IN  /\ IF r.inserted
              THEN /\ post_like' = unlike_commit_like(post_like, <<r.target, user>>)
                   /\ local_post_like_undo' =
                          Append(local_post_like_undo, [post |-> r.target, person |-> user])
                   /\ spawned' = spawned (+) SetToBag({
                          UndoTask("post_like_undo", r.target, user, new_undo)})
              ELSE UNCHANGED <<post_like, local_post_like_undo, spawned>>
           /\ requests' = (requests (-) SetToBag({r})) (+) SetToBag({
                  ApiRequest(r.op, r.user, r.target, "done",
                             response_status(OkResult(204)), r.inserted)})
    /\ UNCHANGED <<reply_like, local_reply_like_undo>>
    /\ UnlikeFrame

route_unstable_comments_unlike(token, comment_id) ==
    unlike_login("comments_unlike", token, comment_id)

route_unstable_comments_unlike_delete(r) == unlike_delete("comments_unlike", reply_like, r)

\* lines 1593-1657
route_unstable_comments_unlike_commit(r) ==
    /\ r \in BagToSet(requests)
    /\ r.op = "comments_unlike"
    /\ r.pc = "commit"
    /\ LET user == Unwrap(r.user)
           new_undo == Len(local_reply_like_undo) + 1
       IN  /\ IF r.inserted
              THEN /\ reply_like' = unlike_commit_like(reply_like, <<r.target, user>>)
                   /\ local_reply_like_undo' =
                          Append(local_reply_like_undo, [reply |-> r.target, person |-> user])
                   /\ spawned' = spawned (+) SetToBag({
                          UndoTask("reply_like_undo", r.target, user, new_undo)})
              ELSE UNCHANGED <<reply_like, local_reply_like_undo, spawned>>
           /\ requests' = (requests (-) SetToBag({r})) (+) SetToBag({
                  ApiRequest(r.op, r.user, r.target, "done",
                             response_status(OkResult(204)), r.inserted)})
    /\ UNCHANGED <<post_like, local_post_like_undo>>
    /\ UnlikeFrame

(***************************************************************************)
(* The future an unlike spawns: the Undo of the like, addressed like the   *)
(* Like was.                                                               *)
(***************************************************************************)
local_like_undo_to_ap(collection, undo, target, user) ==
    <<"Undo", get_local_person_apub_id(user), <<HostUrlApub, collection, target>>, undo>>

undo_deliveries(target_local, author, community_id, user, body) ==
    LET inboxes == (IF ~target_local THEN person_inbox(author) ELSE {})
                   \cup (IF ~community[community_id].local
                         THEN community[community_id].inbox ELSE {})
    IN  {[i \in DOMAIN order |-> DeliverToInbox(Some(order[i]), <<"person", user>>, body)]
            \o (IF community[community_id].local
                THEN <<enqueue_forward_to_community_followers(community_id, body)>>
                ELSE <<>>) : order \in Orderings(inboxes)}

run_undo_effects(target_local, author, community_id, body, t) ==
    /\ spawned' = spawned (-) SetToBag({t})
    /\ \E rows \in undo_deliveries(target_local, author, community_id, t.user, body) :
          /\ task' = task \o rows
          /\ worker_trigger' = IF rows = <<>> THEN worker_trigger
                               ELSE try_send(worker_trigger)
    /\ UNCHANGED <<person, community_follow, post, reply, post_like, reply_like,
                   notification, fetches, processed, nreq, last, requests,
                   local_post_like_undo, local_reply_like_undo, worker,
                   local_actor_name, community_fetched>>

\* lines 1156-1211
run_post_like_undo_task(t) ==
    /\ t \in BagToSet(spawned)
    /\ t.kind = "post_like_undo"
    /\ LET row == post[t.target]
       IN  run_undo_effects(row.local, row.author, row.community,
                            local_like_undo_to_ap("posts", t.undo, t.target, t.user), t)

\* lines 1599-1654
run_comment_like_undo_task(t) ==
    /\ t \in BagToSet(spawned)
    /\ t.kind = "reply_like_undo"
    /\ LET row == reply[t.target]
       IN  run_undo_effects(row.local, row.author, post[row.post].community,
                            local_like_undo_to_ap("comments", t.undo, t.target, t.user), t)

(***************************************************************************)
(* The like specification: fixed posts and comments, like requests of any  *)
(* login for any of them, handled concurrently.                            *)
(***************************************************************************)
InitReplyTable ==
    <<ReplyRow(1, None, Some(2), TRUE, None),
      ReplyRow(2, None, Some(3), FALSE, Some(<<PeerUrl, "comments", 1>>))>>

InitLikes ==
    /\ person = InitPersons
    /\ community_follow = {}
    /\ post \in InitPostTables
    /\ reply = InitReplyTable
    /\ post_like = EmptyBag
    /\ reply_like = EmptyBag
    /\ notification = EmptyBag
    /\ task = <<>>
    /\ worker_trigger = 0
    /\ spawned = EmptyBag
    /\ fetches = EmptyBag
    /\ processed = {}
    /\ nreq = 0
    /\ last = NoRequest
    /\ requests = EmptyBag
    /\ local_post_like_undo = <<>>
    /\ local_reply_like_undo = <<>>
    /\ worker = WorkerStarted
    /\ local_actor_name = {}
    /\ community_fetched = <<>>

PostsLike ==
    \E token \in Tokens, post_id \in DOMAIN post \cup {Len(post) + 1} :
        route_unstable_posts_like(token, post_id)

PostsLikeInsert == \E r \in BagToSet(requests) : route_unstable_posts_like_insert(r)

CommentsLike ==
    \E token \in Tokens, comment_id \in DOMAIN reply \cup {Len(reply) + 1} :
        route_unstable_comments_like(token, comment_id)

CommentsLikeInsert == \E r \in BagToSet(requests) : route_unstable_comments_like_insert(r)

RunPostLikeTask == \E t \in BagToSet(spawned) : run_post_like_task(t)

RunCommentLikeTask == \E t \in BagToSet(spawned) : run_comment_like_task(t)

NextLikes ==
    \/ PostsLike
    \/ PostsLikeInsert
    \/ CommentsLike
    \/ CommentsLikeInsert
    \/ RunPostLikeTask
    \/ RunCommentLikeTask

SpecLikes == InitLikes /\ [][NextLikes]_vars

(***************************************************************************)
(* A future handed to spawn_task that ends in an error: the error is       *)
(* printed and the future is gone.                                         *)
(***************************************************************************)
FederationKinds == {"post_like", "reply_like", "post_like_undo", "reply_like_undo"}

spawn_task_fails(t) ==
    /\ t \in BagToSet(spawned)
    /\ t.kind \in FederationKinds
    /\ spawned' = spawned (-) SetToBag({t})
    /\ UNCHANGED <<person, community_follow, post, reply, post_like, reply_like,
                   notification, task, worker_trigger, fetches, processed, nreq, last,
                   requests, local_post_like_undo, local_reply_like_undo, worker,
                   local_actor_name, community_fetched>>

(***************************************************************************)
(* The like/unlike specification: the posts and comments of the like       *)
(* specification, one like of a post and one of a comment already stored,  *)
(* and like and unlike requests handled concurrently; a spawned future may  *)
(* fail.                                                                   *)
(***************************************************************************)
InitLikeUndoPosts ==
    <<PostRow(Some(1), 1, TRUE, None),
      PostRow(Some(3), 2, FALSE, Some(<<PeerUrl, "posts", 1>>))>>

InitPostLikes == SetToBag({<<2, 2>>})

InitReplyLikes == SetToBag({<<1, 1>>})

InitLikeUndo ==
    /\ person = InitPersons
    /\ community_follow = {}
    /\ post = InitLikeUndoPosts
    /\ reply = InitReplyTable
    /\ post_like = InitPostLikes
    /\ reply_like = InitReplyLikes
    /\ notification = EmptyBag
    /\ task = <<>>
    /\ worker_trigger = 0
    /\ spawned = EmptyBag
    /\ fetches = EmptyBag
    /\ processed = {}
    /\ nreq = 0
    /\ last = NoRequest
    /\ requests = EmptyBag
    /\ local_post_like_undo = <<>>
    /\ local_reply_like_undo = <<>>
    /\ worker = WorkerStarted
    /\ local_actor_name = {}
    /\ community_fetched = <<>>

PostsUnlike ==
    \E token \in Tokens, post_id \in DOMAIN post \cup {Len(post) + 1} :
        route_unstable_posts_unlike(token, post_id)

PostsUnlikeDelete == \E r \in BagToSet(requests) : route_unstable_posts_unlike_delete(r)

PostsUnlikeCommit == \E r \in BagToSet(requests) : route_unstable_posts_unlike_commit(r)

CommentsUnlike ==
    \E token \in Tokens, comment_id \in DOMAIN reply \cup {Len(reply) + 1} :
        route_unstable_comments_unlike(token, comment_id)

CommentsUnlikeDelete == \E r \in BagToSet(requests) : route_unstable_comments_unlike_delete(r)

CommentsUnlikeCommit == \E r \in BagToSet(requests) : route_unstable_comments_unlike_commit(r)

UnlikeRollback == \E r \in BagToSet(requests) : unlike_rollback(r)

RunPostLikeUndoTask == \E t \in BagToSet(spawned) : run_post_like_undo_task(t)

RunCommentLikeUndoTask == \E t \in BagToSet(spawned) : run_comment_like_undo_task(t)

SpawnTaskFails == \E t \in BagToSet(spawned) : spawn_task_fails(t)

NextLikeUndo ==
    \/ PostsLike
    \/ PostsLikeInsert
    \/ RunPostLikeTask
    \/ PostsUnlike
    \/ PostsUnlikeDelete
    \/ PostsUnlikeCommit
    \/ CommentsUnlike
    \/ CommentsUnlikeDelete
    \/ CommentsUnlikeCommit
    \/ UnlikeRollback
    \/ RunPostLikeUndoTask
    \/ RunCommentLikeUndoTask
    \/ SpawnTaskFails

SpecLikeUndo == InitLikeUndo /\ [][NextLikeUndo]_vars


(***************************************************************************)
(* enqueue_task as the two steps other futures can run between (the INSERT *)
(* of the task row, then the try_send into the trigger channel), and the   *)
(* worker at the other end of the channel: it waits for a wake-up or for   *)
(* its poll timer, then claims every task row in the table.  A worker that *)
(* has ended has dropped the receiver, which closes the channel.           *)
(***************************************************************************)
EnqueueCall(pc, row, ok) == [op |-> "enqueue_task", pc |-> pc, row |-> row, ok |-> ok]

EnqueueInputs ==
    {DeliverToInbox(community[2].inbox, <<"person", 1>>,
                    local_like_to_ap(get_local_post_apub_id(1), 1)),
     DeliverToFollowers(1, local_like_to_ap(get_local_post_apub_id(1), 1))}

QueueFrame == UNCHANGED <<person, community_follow, post, reply, post_like, reply_like,
                          notification, spawned, fetches, processed, nreq, last,
                          local_post_like_undo, local_reply_like_undo,
                          local_actor_name, community_fetched>>

\* lines 35-39
enqueue_task(row) ==
    /\ BagCardinality(requests) < MaxEnqueues
    /\ task' = Append(task, row)
    /\ requests' = requests (+) SetToBag({EnqueueCall("try_send", Len(task) + 1, FALSE)})
    /\ UNCHANGED <<worker_trigger, worker>>
    /\ QueueFrame

\* lines 41-46: Ok for a sent or a full channel, an error for a closed one.
enqueue_task_try_send(r) ==
    /\ r \in BagToSet(requests)
    /\ r.op = "enqueue_task"
    /\ r.pc = "try_send"
    /\ IF worker.pc = "stopped"
       THEN /\ requests' = (requests (-) SetToBag({r}))
                              (+) SetToBag({EnqueueCall("returned", r.row, FALSE)})
            /\ UNCHANGED worker_trigger
       ELSE /\ requests' = (requests (-) SetToBag({r}))
                              (+) SetToBag({EnqueueCall("returned", r.row, TRUE)})
            /\ worker_trigger' = try_send(worker_trigger)
    /\ UNCHANGED <<task, worker>>
    /\ QueueFrame

worker_recv ==
    /\ worker.pc = "recv"
    /\ worker_trigger > 0
    /\ worker_trigger' = worker_trigger - 1
    /\ worker' = [worker EXCEPT !.pc = "scan"]
    /\ UNCHANGED <<task, requests>>
    /\ QueueFrame

worker_poll ==
    /\ worker.pc = "recv"
    /\ worker' = [worker EXCEPT !.pc = "scan"]
    /\ UNCHANGED <<task, requests, worker_trigger>>
    /\ QueueFrame

worker_scan ==
    /\ worker.pc = "scan"
    /\ worker' = [pc |-> "recv", done |-> DOMAIN task]
    /\ UNCHANGED <<task, requests, worker_trigger>>
    /\ QueueFrame

worker_stop ==
    /\ worker.pc = "recv"
    /\ worker' = [worker EXCEPT !.pc = "stopped"]
    /\ UNCHANGED <<task, requests, worker_trigger>>
    /\ QueueFrame

EnqueueTask == \E row \in EnqueueInputs : enqueue_task(row)

EnqueueTaskTrySend == \E r \in BagToSet(requests) : enqueue_task_try_send(r)

NextQueue ==
    \/ EnqueueTask
    \/ EnqueueTaskTrySend
    \/ worker_recv
    \/ worker_poll
    \/ worker_scan
    \/ worker_stop

SpecQueue == Init /\ [][NextQueue]_vars


(***************************************************************************)
(* POST /posts, DELETE /posts/{id} and DELETE /comments/{id}.  Here a post *)
(* row also carries its payload columns and its deleted flag, a reply row  *)
(* its content_text and deleted flag; a column holds NULL or a value that  *)
(* names what was stored.                                                  *)
(***************************************************************************)
PostRowWith(author, community_id, is_local, ap_id, href, text, markdown, html) ==
    PostRow(author, community_id, is_local, ap_id)
        @@ [href |-> href, had_href |-> FALSE, title |-> "title",
            content_text |-> text, content_markdown |-> markdown,
            content_html |-> html, deleted |-> FALSE]

\* The body of POST /posts: bytes that do not deserialize as PostsCreateBody,
\* or a community id and which of the three optional fields are present.
PostsCreateBody(malformed, community_id, href, content_text, content_markdown) ==
    [malformed |-> malformed, community |-> community_id, href |-> href,
     content_text |-> content_text, content_markdown |-> content_markdown]

PostsCreateBodies ==
    {PostsCreateBody(TRUE, 1, FALSE, FALSE, FALSE)}
    \cup {PostsCreateBody(FALSE, 1, h, t, m) : h \in BOOLEAN, t \in BOOLEAN, m \in BOOLEAN}
    \cup {PostsCreateBody(FALSE, 2, FALSE, TRUE, FALSE),
          PostsCreateBody(FALSE, Len(community) + 1, FALSE, TRUE, FALSE)}

render_markdown(md) == "html"

posts_create_accepts_any(body) == OkResult(200)

\* lines 530-542: the two checks on the optional fields.
posts_create_validate(body) ==
    IF ~body.href /\ ~body.content_text /\ ~body.content_markdown THEN UserError(400)
    ELSE IF body.content_markdown /\ body.content_text THEN UserError(400)
    ELSE OkResult(200)

\* The response of POST /posts: 401 without a login, an internal error for a
\* body that does not deserialize or for an INSERT that violates the foreign
\* key on community, 400 from the checks, else 200 with the new id.
posts_create_result(token, body) ==
    IF require_login(token).err # "none" THEN require_login(token)
    ELSE IF body.malformed THEN InternalError
    ELSE IF posts_create_validate(body).err # "none" THEN posts_create_validate(body)
    ELSE IF body.community \notin DOMAIN community THEN InternalError
    ELSE OkResult(200)

PostsFrame == UNCHANGED <<person, community_follow, post_like, reply_like, notification,
                          fetches, processed, requests, local_post_like_undo,
                          local_reply_like_undo, worker,
                   local_actor_name, community_fetched>>

ApiLast(op, user, target, result) ==
    [op |-> op, user |-> user, target |-> target, status |-> response_status(result)]

\* lines 546-556 and 558-561: the row the INSERT stores.
posts_create_row(user, body) ==
    PostRowWith(Some(user), body.community, TRUE, None,
                IF body.href THEN Some("href") ELSE None,
                IF ~body.content_markdown /\ body.content_text THEN Some("text") ELSE None,
                IF body.content_markdown THEN Some("md") ELSE None,
                IF body.content_markdown THEN Some(render_markdown("md")) ELSE None)

route_unstable_posts_create(token, body) ==
    LET result == posts_create_result(token, body)
        user == authenticate(token)
        id == Len(post) + 1
    IN  /\ nreq < MaxPostRequests
        /\ nreq' = nreq + 1
        /\ last' = ApiLast("posts_create", user, body, result)
        /\ IF result.err # "none"
           THEN UNCHANGED <<post, spawned>>
           ELSE /\ post' = Append(post, posts_create_row(Unwrap(user), body))
                /\ spawned' = spawned (+) SetToBag({
                       [kind |-> "posts_create", post |-> id, community |-> body.community,
                        community_local |-> community[body.community].local]})
        /\ UNCHANGED <<reply, task, worker_trigger>>
        /\ PostsFrame

\* lines 578-595: the future spawned by POST /posts.
run_posts_create_task(t) ==
    /\ t \in BagToSet(spawned)
    /\ t.kind = "posts_create"
    /\ spawned' = (spawned (-) SetToBag({t})) (+) SetToBag({
           [kind |-> IF t.community_local THEN "announce_community_post"
                     ELSE "send_local_post_to_community",
            community |-> t.community, post |-> t.post]})
    /\ UNCHANGED <<post, reply, task, worker_trigger, nreq, last>>
    /\ PostsFrame

\* spawn_announce_community_post and spawn_enqueue_send_local_post_to_community:
\* the Announce goes to the followers of the local community, the Create to
\* the inbox of the remote community.
run_post_federation(t) ==
    /\ t \in BagToSet(spawned)
    /\ t.kind \in {"announce_community_post", "send_local_post_to_community"}
    /\ spawned' = spawned (-) SetToBag({t})
    /\ task' = Append(task,
                 IF t.kind = "announce_community_post"
                 THEN DeliverToFollowers(t.community,
                                         <<"Announce", get_local_post_apub_id(t.post)>>)
                 ELSE DeliverToInbox(community[t.community].inbox,
                                     <<"person", Unwrap(post[t.post].author)>>,
                                     <<"Create", get_local_post_apub_id(t.post)>>))
    /\ worker_trigger' = try_send(worker_trigger)
    /\ UNCHANGED <<post, reply, nreq, last>>
    /\ PostsFrame


local_post_delete_to_ap(post_id, user) ==
    <<"Delete", get_local_person_apub_id(user), get_local_post_apub_id(post_id)>>

local_comment_delete_to_ap(comment_id, user) ==
    <<"Delete", get_local_person_apub_id(user), get_local_comment_apub_id(comment_id)>>

delete_allows_anyone(author, user) == TRUE

\* lines 976-977 and 1415-1416: only the author may delete.
delete_allowed(author, user) == author = Some(user)

\* The response of DELETE /posts/{id}: 401 without a login, 204 when no row
\* with that id is live, 403 for somebody else's post, else 204.
posts_delete_result(token, post_id) ==
    IF require_login(token).err # "none" THEN require_login(token)
    ELSE IF post_id \notin DOMAIN post \/ post[post_id].deleted THEN OkResult(204)
    ELSE IF ~delete_allowed(post[post_id].author, Unwrap(authenticate(token)))
         THEN UserError(403)
         ELSE OkResult(204)

posts_delete_performs(token, post_id) ==
    /\ require_login(token).err = "none"
    /\ post_id \in DOMAIN post
    /\ ~post[post_id].deleted
    /\ delete_allowed(post[post_id].author, Unwrap(authenticate(token)))

\* line 984: the UPDATE of the post row.
posts_delete_update(row) ==
    [row EXCEPT !.had_href = (row.href # None), !.href = None, !.title = "[deleted]",
                !.content_text = Some("[deleted]"), !.deleted = TRUE]

route_unstable_posts_delete(token, post_id) ==
    LET user == authenticate(token)
    IN  /\ nreq < MaxPostRequests
        /\ nreq' = nreq + 1
        /\ last' = ApiLast("posts_delete", user, post_id, posts_delete_result(token, post_id))
        /\ IF posts_delete_performs(token, post_id)
           THEN /\ post' = [post EXCEPT ![post_id] = posts_delete_update(post[post_id])]
                /\ spawned' = spawned (+) SetToBag({
                       [kind |-> "delete", community |-> Some(post[post_id].community),
                        user |-> Unwrap(user),
                        delete_ap |-> local_post_delete_to_ap(post_id, Unwrap(user))]})
           ELSE UNCHANGED <<post, spawned>>
        /\ UNCHANGED <<reply, task, worker_trigger>>
        /\ PostsFrame

comments_delete_result(token, comment_id) ==
    IF require_login(token).err # "none" THEN require_login(token)
    ELSE IF comment_id \notin DOMAIN reply \/ reply[comment_id].deleted THEN OkResult(204)
    ELSE IF ~delete_allowed(reply[comment_id].author, Unwrap(authenticate(token)))
         THEN UserError(403)
         ELSE OkResult(204)

comments_delete_performs(token, comment_id) ==
    /\ require_login(token).err = "none"
    /\ comment_id \in DOMAIN reply
    /\ ~reply[comment_id].deleted
    /\ delete_allowed(reply[comment_id].author, Unwrap(authenticate(token)))

\* line 1424: the UPDATE of the reply row.
comments_delete_update(row) ==
    [row EXCEPT !.content_text = Some("[deleted]"), !.deleted = TRUE]

route_unstable_comments_delete(token, comment_id) ==
    LET user == authenticate(token)
    IN  /\ nreq < MaxPostRequests
        /\ nreq' = nreq + 1
        /\ last' = ApiLast("comments_delete", user, comment_id,
                           comments_delete_result(token, comment_id))
        /\ IF comments_delete_performs(token, comment_id)
           THEN /\ reply' = [reply EXCEPT ![comment_id] =
                                 comments_delete_update(reply[comment_id])]
                /\ spawned' = spawned (+) SetToBag({
                       [kind |-> "delete",
                        community |-> IF reply[comment_id].post \in DOMAIN post
                                      THEN Some(post[reply[comment_id].post].community)
                                      ELSE None,
                        user |-> Unwrap(user),
                        delete_ap |-> local_comment_delete_to_ap(comment_id, Unwrap(user))]})
           ELSE UNCHANGED <<reply, spawned>>
        /\ UNCHANGED <<post, task, worker_trigger>>
        /\ PostsFrame

delete_route_always_inbox(community_id) == FALSE

\* lines 996-997 and 1441-1442: the local column of the community row.
delete_route_local(community_id) == community[community_id].local

\* lines 986-1022 and 1429-1465: the future spawned by a delete; it spawns
\* the future that enqueues the Delete, to the followers of a local community
\* or to the inbox of a remote one.
run_delete_task(t) ==
    /\ t \in BagToSet(spawned)
    /\ t.kind = "delete"
    /\ LET rest == spawned (-) SetToBag({t})
       IN  IF t.community = None THEN spawned' = rest
           ELSE LET c == Unwrap(t.community)
                IN  IF delete_route_local(c)
                    THEN spawned' = rest (+) SetToBag({
                             [kind |-> "enqueue_task",
                              row |-> enqueue_forward_to_community_followers(c, t.delete_ap)]})
                    ELSE IF community[c].inbox # None
                         THEN spawned' = rest (+) SetToBag({
                                  [kind |-> "enqueue_task",
                                   row |-> DeliverToInbox(community[c].inbox,
                                                          <<"person", t.user>>,
                                                          t.delete_ap)]})
                         ELSE spawned' = rest
    /\ UNCHANGED <<post, reply, task, worker_trigger, nreq, last>>
    /\ PostsFrame

\* lines 998-1004 and 1009-1016: the spawned enqueue of the Delete.
run_delete_enqueue(t) ==
    /\ t \in BagToSet(spawned)
    /\ t.kind = "enqueue_task"
    /\ spawned' = spawned (-) SetToBag({t})
    /\ task' = Append(task, t.row)
    /\ worker_trigger' = try_send(worker_trigger)
    /\ UNCHANGED <<post, reply, nreq, last>>
    /\ PostsFrame

(***************************************************************************)
(* The posts specification: users 1 and 2 create posts in the local        *)
(* community 1 and the remote community 2 and delete posts and comments.   *)
(***************************************************************************)
InitPostsPosts ==
    <<PostRowWith(Some(1), 1, TRUE, None, Some("href"), None, Some("md"), Some("html")),
      PostRowWith(Some(3), 2, FALSE, Some(<<PeerUrl, "posts", 1>>), None, Some("text"),
                  None, None)>>

InitPostsReplies ==
    <<ReplyRow(1, None, Some(2), TRUE, None)>>

InitPosts ==
    /\ person = InitPersons
    /\ community_follow = {}
    /\ post = InitPostsPosts
    /\ reply = InitPostsReplies
    /\ post_like = EmptyBag
    /\ reply_like = EmptyBag
    /\ notification = EmptyBag
    /\ task = <<>>
    /\ worker_trigger = 0
    /\ spawned = EmptyBag
    /\ fetches = EmptyBag
    /\ processed = {}
    /\ nreq = 0
    /\ last = [op |-> "none"]
    /\ requests = EmptyBag
    /\ local_post_like_undo = <<>>
    /\ local_reply_like_undo = <<>>
    /\ worker = WorkerStarted
    /\ local_actor_name = {}
    /\ community_fetched = <<>>

PostsTokens == {"absent", "uuid-1", "uuid-2"}

PostsCreate == \E token \in PostsTokens, body \in PostsCreateBodies :
                   route_unstable_posts_create(token, body)

PostsDelete == \E token \in PostsTokens, post_id \in 1..(Len(post) + 1) :
                   route_unstable_posts_delete(token, post_id)

CommentsDelete == \E token \in PostsTokens, comment_id \in 1..(Len(reply) + 1) :
                      route_unstable_comments_delete(token, comment_id)

RunPostsCreateTask == \E t \in BagToSet(spawned) : run_posts_create_task(t)

RunPostFederation == \E t \in BagToSet(spawned) : run_post_federation(t)

RunDeleteTask == \E t \in BagToSet(spawned) : run_delete_task(t)

RunDeleteEnqueue == \E t \in BagToSet(spawned) : run_delete_enqueue(t)

NextPosts ==
    \/ PostsCreate
    \/ PostsDelete
    \/ CommentsDelete
    \/ RunPostsCreateTask
    \/ RunPostFederation
    \/ RunDeleteTask
    \/ RunDeleteEnqueue

SpecPosts == InitPosts /\ [][NextPosts]_vars

(***************************************************************************)
(* The federation specification: the posts specification together with     *)
(* POST /posts/{id}/replies and the futures of on_post_add_comment.        *)
(***************************************************************************)
\* POST /posts with a text body, in either community.
PostsCreateText ==
    \E token \in PostsTokens, community_id \in DOMAIN community :
        route_unstable_posts_create(token,
                                    PostsCreateBody(FALSE, community_id, FALSE, TRUE, FALSE))

\* POST /posts/{id}/replies with a text body.
PostsCommentCreate ==
    \E token \in PostsTokens, post_id \in DOMAIN post :
        route_unstable_posts_replies_create(
            token, post_id,
            [malformed |-> FALSE, content_text |-> TRUE, content_markdown |-> FALSE])

\* The requests served so far, comments created included, are bounded
\* together.
FederationBudget == nreq + Len(reply) - Len(InitPostsReplies) < MaxPostRequests

FederationPostsCreate == FederationBudget /\ PostsCreateText

FederationPostsDelete == FederationBudget /\ PostsDelete

FederationCommentsDelete == FederationBudget /\ CommentsDelete

FederationCommentCreate == FederationBudget /\ PostsCommentCreate

NextFederation ==
    \/ FederationPostsCreate
    \/ FederationPostsDelete
    \/ FederationCommentsDelete
    \/ FederationCommentCreate
    \/ RunPostsCreateTask
    \/ RunPostFederation
    \/ RunDeleteTask
    \/ RunDeleteEnqueue
    \/ RunCommentHook
    \/ RunInsertNotification
    \/ RunCommentFederation

SpecFederation == InitPosts /\ [][NextFederation]_vars

(***************************************************************************)
(* POST /users.  A username is a sequence of characters.  The handler      *)
(* checks the characters, opens a transaction, reserves the name in        *)
(* local_actor_name, inserts the person row and commits; what a            *)
(* transaction has written is kept with the request until the commit       *)
(* stores it, and a rollback drops it.  An INSERT of a name that an open   *)
(* transaction has reserved waits for that transaction to end.             *)
(***************************************************************************)
USERNAME_ALLOWED_CHARS ==
    {"a", "b", "c", "d", "e", "f", "g", "h", "i", "j", "k", "l", "m", "n",
     "o", "p", "q", "r", "s", "t", "u", "v", "w", "x", "y", "z", "A", "B",
     "C", "D", "E", "F", "G", "H", "I", "J", "K", "L", "M", "N", "O", "P",
     "Q", "R", "S", "T", "U", "V", "W", "X", "Y", "Z", "0", "1", "2", "3",
     "4", "5", "6", "7", "8", "9", "_"}

username_allowed(name) == \A i \in DOMAIN name : name[i] \in USERNAME_ALLOWED_CHARS

UsersCreateBody(malformed, username) == [malformed |-> malformed, username |-> username]

UsersCreateBodies ==
    {UsersCreateBody(TRUE, <<>>)}
    \cup {UsersCreateBody(FALSE, name) :
              name \in {<<"a">>, <<"b">>, <<"B">>, <<"b", " ">>}}

LocalPersonRow(username) == [local |-> TRUE, ap_id |-> None, username |-> username]

UsersFrame == UNCHANGED <<community_follow, post, reply, post_like, reply_like,
                          notification, task, worker_trigger, spawned, fetches, processed,
                          nreq, last, local_post_like_undo, local_reply_like_undo, worker,
                          community_fetched>>

\* The names reserved by transactions that are still open.
names_held == {r.target : r \in {q \in BagToSet(requests) :
                                     q.op = "users_create" /\ q.pc \in {"person", "commit"}}}

\* lines 1747-1773: the body is read and checked, the password hashed and
\* the transaction opened.
route_unstable_users_create(body) ==
    /\ BagCardinality(requests) < MaxUserRequests
    /\ requests' = requests (+) SetToBag({
           IF body.malformed
           THEN ApiRequest("users_create", None, body.username, "done", 500, FALSE)
           ELSE IF ~username_allowed(body.username)
                THEN ApiRequest("users_create", None, body.username, "done", 400, FALSE)
                ELSE ApiRequest("users_create", None, body.username, "reserve", 0, FALSE)})
    /\ UNCHANGED <<person, local_actor_name>>
    /\ UsersFrame

reserve_outside_transaction(names, name) == names \cup {name}

\* line 1773: the INSERT runs inside the transaction, so the table other
\* connections see is unchanged until the commit.
reserve_in_transaction(names, name) == names

\* lines 1774-1789: INSERT INTO local_actor_name; a unique violation is
\* answered 400.
route_unstable_users_create_reserve(r) ==
    /\ r \in BagToSet(requests)
    /\ r.op = "users_create"
    /\ r.pc = "reserve"
    /\ r.target \notin names_held
    /\ IF r.target \in local_actor_name
       THEN /\ requests' = (requests (-) SetToBag({r})) (+) SetToBag({
                   ApiRequest(r.op, None, r.target, "done", 400, FALSE)})
            /\ UNCHANGED local_actor_name
       ELSE /\ requests' = (requests (-) SetToBag({r})) (+) SetToBag({
                   ApiRequest(r.op, None, r.target, "person", 0, FALSE)})
            /\ local_actor_name' = reserve_in_transaction(local_actor_name, r.target)
    /\ UNCHANGED person
    /\ UsersFrame

\* lines 1790-1793: INSERT INTO person inside the transaction.
route_unstable_users_create_person(r) ==
    /\ r \in BagToSet(requests)
    /\ r.op = "users_create"
    /\ r.pc = "person"
    /\ requests' = (requests (-) SetToBag({r})) (+) SetToBag({
           ApiRequest(r.op, None, r.target, "commit", 0, FALSE)})
    /\ UNCHANGED <<person, local_actor_name>>
    /\ UsersFrame

\* line 1795: the commit stores the reservation and the person row together.
route_unstable_users_create_commit(r) ==
    /\ r \in BagToSet(requests)
    /\ r.op = "users_create"
    /\ r.pc = "commit"
    /\ local_actor_name' = local_actor_name \cup {r.target}
    /\ person' = Append(person, LocalPersonRow(r.target))
    /\ requests' = (requests (-) SetToBag({r})) (+) SetToBag({
           ApiRequest(r.op, Some(Len(person) + 1), r.target, "done", 200, TRUE)})
    /\ UsersFrame

\* A statement of the transaction or its commit fails: the `?` returns the
\* error, the transaction is dropped and rolls back.
route_unstable_users_create_rollback(r) ==
    /\ r \in BagToSet(requests)
    /\ r.op = "users_create"
    /\ r.pc \in {"person", "commit"}
    /\ requests' = (requests (-) SetToBag({r})) (+) SetToBag({
           ApiRequest(r.op, None, r.target, "done", 500, FALSE)})
    /\ UNCHANGED <<person, local_actor_name>>
    /\ UsersFrame

(***************************************************************************)
(* The users specification: one local user "a" and a user "a" of the peer  *)
(* exist; requests to create users interleave.                             *)
(***************************************************************************)
InitUsersPersons ==
    <<LocalPersonRow(<<"a">>),
      [local |-> FALSE, ap_id |-> Some(PeerUser(1)), username |-> <<"b">>]>>

InitUsers ==
    /\ person = InitUsersPersons
    /\ community_follow = {}
    /\ post = <<>>
    /\ reply = <<>>
    /\ post_like = EmptyBag
    /\ reply_like = EmptyBag
    /\ notification = EmptyBag
    /\ task = <<>>
    /\ worker_trigger = 0
    /\ spawned = EmptyBag
    /\ fetches = EmptyBag
    /\ processed = {}
    /\ nreq = 0
    /\ last = [op |-> "none"]
    /\ requests = EmptyBag
    /\ local_post_like_undo = <<>>
    /\ local_reply_like_undo = <<>>
    /\ worker = WorkerStarted
    /\ local_actor_name = {<<"a">>}
    /\ community_fetched = <<>>

UsersCreate == \E body \in UsersCreateBodies : route_unstable_users_create(body)

UsersCreateReserve == \E r \in BagToSet(requests) : route_unstable_users_create_reserve(r)

UsersCreatePerson == \E r \in BagToSet(requests) : route_unstable_users_create_person(r)

UsersCreateCommit == \E r \in BagToSet(requests) : route_unstable_users_create_commit(r)

UsersCreateRollback == \E r \in BagToSet(requests) : route_unstable_users_create_rollback(r)

NextUsers ==
    \/ UsersCreate
    \/ UsersCreateReserve
    \/ UsersCreatePerson
    \/ UsersCreateCommit
    \/ UsersCreateRollback

SpecUsers == InitUsers /\ [][NextUsers]_vars

(***************************************************************************)
(* The service function of main: what is sent for the result of a handler. *)
(* A response is a status and a body; an internal error carries the detail *)
(* that is printed to the log.                                             *)
(***************************************************************************)
Response(status, body) == [status |-> status, body |-> body]

HandlerResult(kind, response, detail) ==
    [kind |-> kind, response |-> response, detail |-> detail]

HandlerResults ==
    {HandlerResult("Ok", Response(st, b), "") :
         st \in {200, 202, 204}, b \in {"", "json", "connection refused"}}
    \cup {HandlerResult("UserError", Response(st, b), "") :
              st \in {400, 401, 403, 404}, b \in {"", "No such comment", "Not a group"}}
    \cup {HandlerResult("RoutingError", Response(0, ""), f) :
              f \in {"NotFound", "MethodNotAllowed"}}
    \cup {HandlerResult(k, Response(0, ""), d) :
              k \in {"Internal", "InternalStr", "InternalStrStatic"},
              d \in {"connection refused", "Worker channel closed", "Internal Server Error"}}

\* trout::RoutingFailure::to_simple_response
to_simple_response(failure) ==
    IF failure = "NotFound" THEN Response(404, "Not Found")
    ELSE Response(405, "Method Not Allowed")

internal_error_response_with_detail(detail) == Response(500, detail)

\* lines 688-711: the detail goes to the log, the client gets the fixed text.
internal_error_response(detail) == Response(500, "Internal Server Error")

\* lines 684-712
service_response(result) ==
    CASE result.kind = "Ok" -> result.response
      [] result.kind = "UserError" -> result.response
      [] result.kind = "RoutingError" -> to_simple_response(result.detail)
      [] OTHER -> internal_error_response(result.detail)

\* lines 679-713: one request is routed, handled and answered.
serve(result) ==
    /\ nreq < MaxServed
    /\ nreq' = nreq + 1
    /\ last' = [op |-> "serve", result |-> result, response |-> service_response(result)]
    /\ UNCHANGED <<person, community_follow, post, reply, post_like, reply_like,
                   notification, task, worker_trigger, spawned, fetches, processed,
                   requests, local_post_like_undo, local_reply_like_undo, worker,
                   local_actor_name, community_fetched>>

Serve == \E result \in HandlerResults : serve(result)

SpecServe == Init /\ [][Serve]_vars

(***************************************************************************)
(* The GET handlers of /communities.  A URL below a community is the       *)
(* community's URL followed by the rest of the path.  A response is a      *)
(* status and, for 200, the document that is serialized.                   *)
(***************************************************************************)
community_table == community \o community_fetched

ApubResponse(status, doc) == [status |-> status, doc |-> doc]

ApubLast(op, params, response) == [op |-> op, params |-> params, response |-> response]

ApubFrame == UNCHANGED <<person, post, reply, post_like, reply_like, notification, task,
                         worker_trigger, spawned, fetches, processed, nreq, requests,
                         local_post_like_undo, local_reply_like_undo, worker,
                         local_actor_name, community_fetched>>

group_inbox_is_id(community_id) == get_local_community_apub_id(community_id)

\* lines 79-82: format!("{}/communities/{}/inbox", host_url_apub, community_id)
group_inbox(community_id) == get_local_community_apub_id(community_id) \o <<"inbox">>

\* lines 83-86
group_followers(community_id) == get_local_community_apub_id(community_id) \o <<"followers">>

\* lines 44-104
handler_communities_get(community_id) ==
    IF community_id \notin DOMAIN community_table THEN ApubResponse(404, None)
    ELSE IF ~community_table[community_id].local THEN ApubResponse(400, None)
    ELSE ApubResponse(200, Some([type |-> "Group",
                                 id |-> get_local_community_apub_id(community_id),
                                 inbox |-> group_inbox(community_id),
                                 followers |-> group_followers(community_id)]))

count_all_follows(follows, community_id) == Cardinality(follows)

\* lines 182-187: SELECT COUNT(*) FROM community_follow WHERE community=$1
count_follows(follows, community_id) ==
    Cardinality({r \in follows : r.community = community_id})

\* lines 174-199
handler_communities_followers_list(community_id) ==
    ApubResponse(200, Some([type |-> "Collection",
                            totalItems |-> count_follows(community_follow, community_id)]))

follow_row_of_anyone(follows, community_id, user_id) ==
    /\ community_id \in DOMAIN community_table
    /\ user_id \in DOMAIN person
    /\ \E r \in follows : r.community = community_id

\* lines 209-212: the join of community_follow, community and person.
follow_row(follows, community_id, user_id) ==
    /\ community_id \in DOMAIN community_table
    /\ user_id \in DOMAIN person
    /\ HasFollow(follows, community_id, user_id)

\* lines 201-265
handler_communities_followers_get(community_id, user_id) ==
    IF ~follow_row(community_follow, community_id, user_id) THEN ApubResponse(404, None)
    ELSE IF ~person[user_id].local THEN ApubResponse(400, None)
    ELSE IF ~community_table[community_id].local
            /\ community_table[community_id].ap_id = None
         THEN ApubResponse(500, None)
         ELSE ApubResponse(200, Some(
                  [type |-> "Follow",
                   id |-> group_followers(community_id) \o <<user_id>>,
                   actor |-> get_local_person_apub_id(user_id),
                   object |-> IF community_table[community_id].local
                              THEN get_local_community_apub_id(community_id)
                              ELSE Unwrap(community_table[community_id].ap_id)]))

\* local_community_post_to_announce_ap and
\* local_community_comment_to_announce_ap: the Announce of the community
\* with this local id.
announce_ap(community_id, object) ==
    [type |-> "Announce", actor |-> get_local_community_apub_id(community_id),
     object |-> object]

\* lines 417-471
handler_communities_posts_announce_get(community_id, post_id) ==
    IF post_id \notin DOMAIN post \/ post[post_id].community # community_id
    THEN ApubResponse(404, None)
    ELSE IF community_id \notin DOMAIN community_table THEN ApubResponse(404, None)
    ELSE IF ~community_table[community_id].local THEN ApubResponse(400, None)
    ELSE ApubResponse(200, Some(announce_ap(community_id, <<"posts", post_id>>)))

\* lines 106-172: the row is selected by the community of the comment's
\* post, and the local column that is tested is the comment's.
handler_communities_comments_announce_get(community_id, comment_id) ==
    IF \/ comment_id \notin DOMAIN reply
       \/ reply[comment_id].post \notin DOMAIN post
       \/ post[reply[comment_id].post].community # community_id
    THEN ApubResponse(404, None)
    ELSE IF ~reply[comment_id].local THEN ApubResponse(400, None)
    ELSE ApubResponse(200, Some(announce_ap(community_id, <<"comments", comment_id>>)))

\* A follow is stored: of a local user through the API, or of a user of the
\* peer through the inbox of a local community.
community_follow_insert(community_id, follower) ==
    /\ person[follower].local \/ community_table[community_id].local
    /\ community_follow' =
           insert_community_follow(community_follow, community_id, follower).community_follow
    /\ last' = [op |-> "community_follow_insert"]
    /\ ApubFrame

CommunitiesGet ==
    \E c \in 1..(Len(community_table) + 1) :
        /\ last' = ApubLast("communities_get", <<c>>, handler_communities_get(c))
        /\ UNCHANGED community_follow
        /\ ApubFrame

CommunitiesFollowersList ==
    \E c \in 1..(Len(community_table) + 1) :
        /\ last' = ApubLast("followers_list", <<c>>, handler_communities_followers_list(c))
        /\ UNCHANGED community_follow
        /\ ApubFrame

CommunitiesFollowersGet ==
    \E c \in 1..(Len(community_table) + 1), u \in 1..(Len(person) + 1) :
        /\ last' = ApubLast("followers_get", <<c, u>>,
                            handler_communities_followers_get(c, u))
        /\ UNCHANGED community_follow
        /\ ApubFrame

CommunitiesPostsAnnounceGet ==
    \E c \in 1..(Len(community_table) + 1), p \in 1..(Len(post) + 1) :
        /\ last' = ApubLast("posts_announce", <<c, p>>,
                            handler_communities_posts_announce_get(c, p))
        /\ UNCHANGED community_follow
        /\ ApubFrame

CommunitiesCommentsAnnounceGet ==
    \E c \in 1..(Len(community_table) + 1), m \in 1..(Len(reply) + 1) :
        /\ last' = ApubLast("comments_announce", <<c, m>>,
                            handler_communities_comments_announce_get(c, m))
        /\ UNCHANGED community_follow
        /\ ApubFrame

CommunityFollowInsert ==
    \E c \in DOMAIN community_table, u \in DOMAIN person : community_follow_insert(c, u)

(***************************************************************************)
(* The specification of the GET handlers: posts and comments, local and of *)
(* the peer, in the local community 1 and the remote community 2; follows  *)
(* come and the documents are requested in any order.                      *)
(***************************************************************************)
InitApubPosts ==
    <<PostRow(Some(1), 1, TRUE, None),
      PostRow(Some(3), 2, FALSE, Some(<<PeerUrl, "posts", 1>>)),
      PostRow(Some(2), 2, TRUE, None)>>

InitApubReplies ==
    <<ReplyRow(1, None, Some(2), TRUE, None),
      ReplyRow(2, None, Some(1), TRUE, None),
      ReplyRow(1, Some(1), Some(3), FALSE, Some(<<PeerUrl, "comments", 1>>))>>

InitApub ==
    /\ person = InitPersons
    /\ community_follow = {}
    /\ post = InitApubPosts
    /\ reply = InitApubReplies
    /\ post_like = EmptyBag
    /\ reply_like = EmptyBag
    /\ notification = EmptyBag
    /\ task = <<>>
    /\ worker_trigger = 0
    /\ spawned = EmptyBag
    /\ fetches = EmptyBag
    /\ processed = {}
    /\ nreq = 0
    /\ last = [op |-> "none"]
    /\ requests = EmptyBag
    /\ local_post_like_undo = <<>>
    /\ local_reply_like_undo = <<>>
    /\ worker = WorkerStarted
    /\ local_actor_name = {}
    /\ community_fetched = <<>>

NextApub ==
    \/ CommunityFollowInsert
    \/ CommunitiesGet
    \/ CommunitiesFollowersList
    \/ CommunitiesFollowersGet
    \/ CommunitiesPostsAnnounceGet
    \/ CommunitiesCommentsAnnounceGet

SpecApub == InitApub /\ [][NextApub]_vars

(***************************************************************************)
(* GET /api/unstable/actors:lookup/{query}.  An href is the text of a URL: *)
(* the URL up to its fragment and the fragment, if it has one; the text    *)
(* that is no URI has an empty url.  A hyper::Uri holds scheme, authority, *)
(* path and query, so parsing keeps the URL and not the fragment.          *)
(***************************************************************************)
MaxLookups == 2

ACTIVITY_TYPE == "application/activity+json"

Href(url, fragment) == [url |-> url, fragment |-> fragment]

\* href.parse(): a hyper::Uri, or the error of a text that is no URI.
uri_parse(href) == IF href.url = <<>> THEN None ELSE Some(href.url)

\* uri.to_string()
uri_to_string(uri) == Href(uri, None)

FingerLink(rel, type_, href) == [rel |-> rel, type_ |-> type_, href |-> href]

PeerGroup(n) == <<PeerUrl, "communities", n>>

\* The actors of the peer: community 1 is the stored remote community,
\* community 3 is not stored yet, users 1 and 2 are persons, of which user 1
\* is stored.
LookupOrigin(url) ==
    CASE url = PeerGroup(1) \/ url = PeerGroup(3) -> Doc(TRUE, "Group", None, None)
      [] url = PeerUser(1) \/ url = PeerUser(2) -> Doc(TRUE, "Person", None, None)
      [] OTHER -> NoDoc

LookupHrefs ==
    {Href(PeerGroup(3), None), Href(PeerGroup(3), Some("main")), Href(PeerGroup(1), None),
     Href(PeerUser(1), None), Href(PeerUser(2), None), Href(PeerGroup(4), None),
     Href(<<>>, None)}

FingerLinks ==
    {FingerLink("self", Some(ACTIVITY_TYPE), Some(h)) : h \in LookupHrefs}
    \cup {FingerLink("self", Some(ACTIVITY_TYPE), None),
          FingerLink("self", Some("text/html"), Some(Href(PeerGroup(3), None))),
          FingerLink("self", None, Some(Href(PeerGroup(3), None))),
          FingerLink("http://webfinger.net/rel/profile-page", Some(ACTIVITY_TYPE),
                     Some(Href(PeerGroup(3), None)))}

\* What the WebFinger endpoint of the host answered: 404, another failure
\* status, or 200 with the links of the body in their order.
FingerResponses ==
    {[status |-> 404, links |-> <<>>], [status |-> 500, links |-> <<>>],
     [status |-> 200, links |-> <<>>]}
    \cup {[status |-> 200, links |-> <<a>>] : a \in FingerLinks}
    \cup {[status |-> 200, links |-> <<a, b>>] : a, b \in FingerLinks}

\* parse_lookup, lines 231-250: a URI, user@host, or neither.
LookupQueries ==
    {[kind |-> "uri", href |-> h] : h \in LookupHrefs}
    \cup {[kind |-> "webfinger", href |-> Href(<<>>, None)],
          [kind |-> "unrecognized", href |-> Href(<<>>, None)]}

link_qualifies_any_rel(entry) == entry.type_ = Some(ACTIVITY_TYPE) /\ entry.href # None

\* lines 294-299: rel is self, the type is the activity type, and the
\* entry has an href.
link_qualifies(entry) ==
    /\ entry.rel = "self"
    /\ entry.type_ = Some(ACTIVITY_TYPE)
    /\ entry.href # None

RECURSIVE found_uri(_)
\* lines 292-303: the loop over res.links, left at the first qualifying
\* entry; its href is parsed, and a parse error is the handler's error.
found_uri(links) ==
    IF links = <<>> THEN [err |-> FALSE, uri |-> None]
    ELSE IF link_qualifies(Head(links))
         THEN [err |-> uri_parse(Unwrap(Head(links).href)) = None,
               uri |-> uri_parse(Unwrap(Head(links).href))]
         ELSE found_uri(Tail(links))

\* lines 264-306: the URI of the lookup.
lookup_uri(query, finger) ==
    CASE query.kind = "unrecognized" -> [err |-> TRUE, uri |-> None]
      [] query.kind = "uri" ->
             [err |-> uri_parse(query.href) = None, uri |-> uri_parse(query.href)]
      [] OTHER ->
             IF finger.status = 404 THEN [err |-> FALSE, uri |-> None]
             ELSE IF finger.status # 200 THEN [err |-> TRUE, uri |-> None]
             ELSE found_uri(finger.links)

CommunityIdsByApId(ap_id) ==
    {i \in DOMAIN community_table : community_table[i].ap_id = Some(ap_id)}

fetched_community_row(ap_id) ==
    [local |-> FALSE, ap_id |-> Some(ap_id), inbox |-> Some(<<ap_id[1], "inbox", 0>>)]

\* fetch_actor: the stored actor with this ap_id unless it is stale;
\* otherwise the document is requested and stored under its ap_id.
fetch_actor(ap_id, stale) ==
    LET known_c == CommunityIdsByApId(ap_id)
        known_p == PersonIdsByApId(person, ap_id)
        doc == LookupOrigin(ap_id)
        nothing == [err |-> FALSE, kind |-> "", id |-> 0, person |-> person,
                    community_fetched |-> community_fetched, fetched |-> EmptyBag]
        got == [nothing EXCEPT !.fetched = SetToBag({uri_to_string(ap_id)})]
    IN  IF known_c # {} /\ ~stale
        THEN [nothing EXCEPT !.kind = "Community", !.id = Unwrap(known_c)]
        ELSE IF known_p # {} /\ ~stale
        THEN [nothing EXCEPT !.kind = "User", !.id = Unwrap(known_p)]
        ELSE IF ~doc.ok THEN [got EXCEPT !.err = TRUE]
        ELSE IF doc.kind = "Group"
        THEN IF known_c # {}
             THEN [got EXCEPT !.kind = "Community", !.id = Unwrap(known_c)]
             ELSE [got EXCEPT !.kind = "Community", !.id = Len(community_table) + 1,
                              !.community_fetched =
                                  Append(community_fetched, fetched_community_row(ap_id))]
        ELSE IF known_p # {}
             THEN [got EXCEPT !.kind = "User", !.id = Unwrap(known_p)]
             ELSE [got EXCEPT !.kind = "User", !.id = Len(person) + 1,
                              !.person = Append(person, [local |-> FALSE,
                                                         ap_id |-> Some(ap_id)])]

LookupResponse(status, body) == [status |-> status, body |-> body]

lookup_response_any_actor(actor) == LookupResponse(200, <<[id |-> actor.id]>>)

\* lines 320-330
lookup_response(actor) ==
    IF actor.kind = "Community"
    THEN LookupResponse(200, <<[id |-> actor.id]>>)
    ELSE LookupResponse(400, "Not a group")

LookupLast(query, finger, uri_str, response) ==
    [op |-> "actors_lookup", query |-> query, finger |-> finger, uri_str |-> uri_str,
     response |-> response]

LookupFrame == UNCHANGED <<community_follow, post, reply, post_like, reply_like,
                           notification, task, worker_trigger, spawned, processed,
                           requests, local_post_like_undo, local_reply_like_undo, worker,
                           local_actor_name>>

\* lines 252-331.  uri_str is the argument of fetch_actor, if it is called.
route_unstable_actors_lookup(query, finger, stale) ==
    LET found == lookup_uri(query, finger)
        uri_str == IF found.uri = None THEN None
                   ELSE Some(uri_to_string(Unwrap(found.uri)))
        actor == fetch_actor(Unwrap(uri_str).url, stale)
    IN  /\ nreq < MaxLookups
        /\ nreq' = nreq + 1
        /\ LookupFrame
        /\ IF found.err
           THEN /\ last' = LookupLast(query, finger, None,
                                      LookupResponse(500, "Internal Server Error"))
                /\ UNCHANGED <<person, community_fetched, fetches>>
           ELSE IF found.uri = None
           THEN /\ last' = LookupLast(query, finger, None, LookupResponse(200, <<>>))
                /\ UNCHANGED <<person, community_fetched, fetches>>
           ELSE /\ fetches' = fetches (+) actor.fetched
                /\ person' = actor.person
                /\ community_fetched' = actor.community_fetched
                /\ last' = LookupLast(query, finger, uri_str,
                               IF actor.err
                               THEN LookupResponse(500, "Internal Server Error")
                               ELSE lookup_response(actor))

ActorsLookup ==
    \E query \in LookupQueries, finger \in FingerResponses, stale \in BOOLEAN :
        /\ query.kind # "webfinger" => finger = [status |-> 404, links |-> <<>>]
        /\ route_unstable_actors_lookup(query, finger, stale)

SpecLookup == Init /\ [][ActorsLookup]_vars

(***************************************************************************)
(* The worker's execution of a task row (the worker protocol): a success   *)
(* deletes the row; a transient failure (network, 5xx, 408, 429) counts an *)
(* attempt, and the row is deleted once attempts equals max_attempts; a    *)
(* permanent failure (another 4xx) deletes the row.  The table keeps the   *)
(* position of a deleted row, and worker.done holds the ids of the deleted *)
(* rows.                                                                   *)
(***************************************************************************)
MaxWorkerTasks == 2

TaskOutcomes == {"success", "transient", "permanent"}

WorkerFrame == UNCHANGED <<person, community_follow, post, reply, post_like, reply_like,
                          notification, spawned, fetches, processed, nreq,
                          local_post_like_undo, local_reply_like_undo,
                          local_actor_name, community_fetched>>

worker_execute(id, outcome) ==
    /\ id \in DOMAIN task
    /\ id \notin worker.done
    /\ last' = [op |-> "execute", id |-> id, outcome |-> outcome]
    /\ IF outcome = "transient"
       THEN /\ task' = [task EXCEPT ![id].attempts = @ + 1]
            /\ worker' = IF task[id].attempts + 1 = task[id].max_attempts
                         THEN [worker EXCEPT !.done = @ \cup {id}]
                         ELSE worker
       ELSE /\ worker' = [worker EXCEPT !.done = @ \cup {id}]
            /\ UNCHANGED task
    /\ UNCHANGED <<requests, worker_trigger>>
    /\ WorkerFrame

\* The enqueue_task of a handler or of the inbox.
WorkerEnqueueTask ==
    \E row \in EnqueueInputs :
        /\ Len(task) < MaxWorkerTasks
        /\ enqueue_task(row)

WorkerExecute == \E id \in DOMAIN task, outcome \in TaskOutcomes : worker_execute(id, outcome)

NextWorker ==
    \/ WorkerEnqueueTask
    \/ EnqueueTaskTrySend
    \/ WorkerExecute

SpecWorker == Init /\ [][NextWorker]_vars

(***************************************************************************)
(* The reply tree of GET /posts/{id} and GET /comments/{id}.  A comment of *)
(* a response is its id, has_replies and replies (NULL or a list); a list  *)
(* is in the order of the query, the newest reply first.  levels counts    *)
(* the nested calls of get_comments_replies, each of which is one query    *)
(* for the children of a list of parents.                                  *)
(***************************************************************************)
MaxTreeReplies == 4

PostCommentsDepth == 2

CommentRepliesDepth == 3

RECURSIVE ids_desc(_)
ids_desc(ids) ==
    IF ids = {} THEN <<>>
    ELSE LET newest == CHOOSE x \in ids : \A y \in ids : y <= x
         IN  <<newest>> \o ids_desc(ids \ {newest})

\* lines 725-733: a comment as the row is read, before
\* apply_comments_replies fills has_replies and replies.
RespPostCommentInfo(id) == [id |-> id, has_replies |-> FALSE, replies |-> None]

ChildrenOf(parents) ==
    {r \in DOMAIN reply : reply[r].parent # None /\ Unwrap(reply[r].parent) \in parents}

with_replies_none(ids) == {}

\* lines 627-638: SELECT DISTINCT parent FROM reply WHERE parent = ANY($1)
with_replies(ids) == {Unwrap(reply[r].parent) : r \in ChildrenOf(ids)}

expands_from_zero(depth) == depth >= 0

\* line 615
expands(depth) == depth > 0

RECURSIVE get_comments_replies(_, _)

\* lines 604-646
apply_comments_replies(comments, depth) ==
    LET ids == {comments[i].id : i \in DOMAIN comments}
    IN  IF expands(depth)
        THEN LET replies == get_comments_replies(ids, depth - 1)
                 current(id) == IF id \in DOMAIN replies.result
                                THEN replies.result[id]
                                ELSE <<>>
             IN  [comments |->
                      [i \in DOMAIN comments |->
                          [comments[i] EXCEPT !.has_replies = current(comments[i].id) # <<>>,
                                              !.replies = Some(current(comments[i].id))]],
                  levels |-> replies.levels]
        ELSE [comments |->
                  [i \in DOMAIN comments |->
                      [comments[i] EXCEPT !.has_replies = comments[i].id \in with_replies(ids)]],
              levels |-> 0]

\* lines 670-752: the rows whose parent is one of parents, each with its
\* replies applied, grouped by parent.
get_comments_replies(parents, depth) ==
    LET rows == ids_desc(ChildrenOf(parents))
        applied == apply_comments_replies([i \in DOMAIN rows |-> RespPostCommentInfo(rows[i])],
                                          depth)
        comment(id) == applied.comments[CHOOSE i \in DOMAIN rows : rows[i] = id]
        of(parent) == ids_desc(ChildrenOf({parent}))
    IN  [result |-> [parent \in with_replies(parents) |->
                        [k \in DOMAIN of(parent) |-> comment(of(parent)[k])]],
         levels |-> 1 + applied.levels]

\* lines 754-829: the top-level comments of the post, with replies applied
\* to depth 2.
get_post_comments(post_id) ==
    LET rows == ids_desc({r \in DOMAIN reply : reply[r].post = post_id /\ reply[r].parent = None})
    IN  apply_comments_replies([i \in DOMAIN rows |-> RespPostCommentInfo(rows[i])],
                               PostCommentsDepth)

TreeFrame == UNCHANGED <<person, community_follow, post, reply, post_like, reply_like,
                         notification, task, worker_trigger, spawned, fetches, processed,
                         nreq, requests, local_post_like_undo, local_reply_like_undo,
                         worker, local_actor_name, community_fetched>>

\* lines 831-955, the comments of the response.  A GET writes no table, so
\* the response of a request is that of the first request on the table.
route_unstable_posts_get(post_id) ==
    /\ last.op = "none"
    /\ last' = IF post_id \notin DOMAIN post
               THEN [op |-> "posts_get", id |-> post_id, status |-> 404,
                     comments |-> <<>>, levels |-> 0]
               ELSE [op |-> "posts_get", id |-> post_id, status |-> 200,
                     comments |-> get_post_comments(post_id).comments,
                     levels |-> get_post_comments(post_id).levels]
    /\ TreeFrame

\* lines 1293-1393, the comment of the response with its replies.
route_unstable_comments_get(comment_id) ==
    LET got == get_comments_replies({comment_id}, CommentRepliesDepth)
        replies == IF comment_id \in DOMAIN got.result THEN got.result[comment_id] ELSE <<>>
    IN  /\ last.op = "none"
        /\ last' = IF comment_id \notin DOMAIN reply
                      \/ reply[comment_id].post \notin DOMAIN post
                   THEN [op |-> "comments_get", id |-> comment_id, status |-> 404,
                         comments |-> <<>>, levels |-> 0]
                   ELSE [op |-> "comments_get", id |-> comment_id, status |-> 200,
                         comments |-> <<[id |-> comment_id, has_replies |-> replies # <<>>,
                                         replies |-> Some(replies)]>>,
                         levels |-> got.levels]
        /\ TreeFrame

\* Every content of the reply table of MaxTreeReplies rows on post 1: a
\* parent column is NULL or any id of the table, cycles included.
ReplyTables ==
    {[r \in 1..MaxTreeReplies |-> ReplyRow(1, parents[r], Some(1), TRUE, None)] :
        parents \in [1..MaxTreeReplies -> {None} \cup {Some(p) : p \in 1..MaxTreeReplies}]}

InitReplyTree ==
    /\ person = InitPersons
    /\ community_follow = {}
    /\ post = <<PostRow(Some(1), 1, TRUE, None)>>
    /\ reply \in ReplyTables
    /\ post_like = EmptyBag
    /\ reply_like = EmptyBag
    /\ notification = EmptyBag
    /\ task = <<>>
    /\ worker_trigger = 0
    /\ spawned = EmptyBag
    /\ fetches = EmptyBag
    /\ processed = {}
    /\ nreq = 0
    /\ last = [op |-> "none"]
    /\ requests = EmptyBag
    /\ local_post_like_undo = <<>>
    /\ local_reply_like_undo = <<>>
    /\ worker = WorkerStarted
    /\ local_actor_name = {}
    /\ community_fetched = <<>>

PostsGet == \E post_id \in 1..(Len(post) + 1) : route_unstable_posts_get(post_id)

CommentsGet == \E comment_id \in 1..(Len(reply) + 1) : route_unstable_comments_get(comment_id)

NextReplyTree ==
    \/ PostsGet
    \/ CommentsGet

SpecReplyTree == InitReplyTree /\ [][NextReplyTree]_vars

(***************************************************************************)
(* The inbox with bodies whose embedded object disagrees with the document *)
(* at its id: an embedded Page whose id is that of a Note at the origin,   *)
(* an embedded Note whose id is that of a Page, and embedded objects whose *)
(* id cannot be fetched.                                                   *)
(***************************************************************************)
InboxFetchBodies ==
    {Body(FALSE, "Follow", "", None, Some(u)) : u \in FollowUrls}
    \cup {Body(FALSE, "Create", obj, Some(u), Some(<<PeerUrl, "creates", 1>>)) :
             obj \in {"uri", "Page", "Note"}, u \in ObjectUrls}

InboxFetchPost ==
    \E c \in CommunityPathIds, body \in InboxFetchBodies :
        handler_communities_inbox_post(c, [sig |-> "valid", body |-> body])

SpecInboxFetch == Init /\ [][InboxFetchPost]_vars

(***************************************************************************)
(* DELETE /posts/{id} and DELETE /comments/{id}, statement by statement:   *)
(* the SELECT of the live row and the UPDATE are two statements outside any *)
(* transaction, so requests that are served together interleave between     *)
(* them.  A request that found a live row of its own holds it (pc "update") *)
(* until its UPDATE, which also spawns the federation and answers 204.      *)
(***************************************************************************)
DeleteFrame == UNCHANGED <<person, community_follow, post_like, reply_like, notification,
                           task, worker_trigger, fetches, processed, nreq, last,
                           local_post_like_undo, local_reply_like_undo, worker,
                           local_actor_name, community_fetched>>

\* lines 965-982 and 1404-1421: login, SELECT ... AND deleted=FALSE, author check.
delete_select(op, token, target, result, performs) ==
    /\ BagCardinality(requests) < MaxDeleteRequests
    /\ requests' = requests (+) SetToBag({
           IF performs
           THEN ApiRequest(op, authenticate(token), target, "update", 0, FALSE)
           ELSE ApiRequest(op, authenticate(token), target, "done",
                           response_status(result), FALSE)})
    /\ UNCHANGED <<post, reply, spawned>>
    /\ DeleteFrame

route_unstable_posts_delete_select(token, post_id) ==
    delete_select("posts_delete", token, post_id, posts_delete_result(token, post_id),
                  posts_delete_performs(token, post_id))

route_unstable_comments_delete_select(token, comment_id) ==
    delete_select("comments_delete", token, comment_id,
                  comments_delete_result(token, comment_id),
                  comments_delete_performs(token, comment_id))

delete_done(r) == requests (-) SetToBag({r}) (+) SetToBag({[r EXCEPT !.pc = "done", !.status = 204, !.inserted = TRUE]})

\* lines 984-1024: the UPDATE, the spawn of the federation and the answer.
route_unstable_posts_delete_update(r) ==
    /\ r \in BagToSet(requests)
    /\ r.op = "posts_delete" /\ r.pc = "update"
    /\ post' = [post EXCEPT ![r.target] = posts_delete_update(post[r.target])]
    /\ spawned' = spawned (+) SetToBag({
           [kind |-> "delete", community |-> Some(post[r.target].community),
            user |-> Unwrap(r.user),
            delete_ap |-> local_post_delete_to_ap(r.target, Unwrap(r.user))]})
    /\ requests' = delete_done(r)
    /\ UNCHANGED reply
    /\ DeleteFrame

\* lines 1423-1467
route_unstable_comments_delete_update(r) ==
    /\ r \in BagToSet(requests)
    /\ r.op = "comments_delete" /\ r.pc = "update"
    /\ reply' = [reply EXCEPT ![r.target] = comments_delete_update(reply[r.target])]
    /\ spawned' = spawned (+) SetToBag({
           [kind |-> "delete",
            community |-> IF reply[r.target].post \in DOMAIN post
                          THEN Some(post[reply[r.target].post].community)
                          ELSE None,
            user |-> Unwrap(r.user),
            delete_ap |-> local_comment_delete_to_ap(r.target, Unwrap(r.user))]})
    /\ requests' = delete_done(r)
    /\ UNCHANGED post
    /\ DeleteFrame

PostsDeleteSelect == \E token \in PostsTokens, post_id \in 1..(Len(post) + 1) :
                         route_unstable_posts_delete_select(token, post_id)

PostsDeleteUpdate == \E r \in BagToSet(requests) : route_unstable_posts_delete_update(r)

CommentsDeleteSelect == \E token \in PostsTokens, comment_id \in 1..(Len(reply) + 1) :
                            route_unstable_comments_delete_select(token, comment_id)

CommentsDeleteUpdate == \E r \in BagToSet(requests) : route_unstable_comments_delete_update(r)

NextDelete ==
    \/ PostsDeleteSelect
    \/ PostsDeleteUpdate
    \/ CommentsDeleteSelect
    \/ CommentsDeleteUpdate
    \/ RunDeleteTask
    \/ RunDeleteEnqueue

SpecDelete == InitPosts /\ [][NextDelete]_vars

(***************************************************************************)
(* PATCH /users/me: after the login the body is parsed and, when it carries *)
(* a description, the description of the person logged in is replaced.      *)
(***************************************************************************)
UsersEditBody(malformed, description) == [malformed |-> malformed, description |-> description]

UsersEditBodies ==
    {UsersEditBody(TRUE, None), UsersEditBody(FALSE, None), UsersEditBody(FALSE, Some("about"))}

users_me_patch_result(token, body) ==
    IF require_login(token).err # "none" THEN require_login(token)
    ELSE IF body.malformed THEN InternalError
    ELSE OkResult(204)

\* lines 1831-1835: UPDATE person SET description=$1 WHERE id=$2 with $2 the
\* person of the login.
route_unstable_users_me_patch(token, body) ==
    LET result == users_me_patch_result(token, body)
        user == authenticate(token)
    IN  /\ last' = ApiLast("users_me_patch", user, body, result)
        /\ IF result.err = "none" /\ body.description # None
           THEN person' = [person EXCEPT ![Unwrap(user)].description =
                                             Unwrap(body.description)]
           ELSE UNCHANGED person
        /\ UNCHANGED <<community_follow, post, reply, post_like, reply_like, notification,
                       task, worker_trigger, spawned, fetches, processed, nreq, requests,
                       local_post_like_undo, local_reply_like_undo, worker,
                       local_actor_name, community_fetched>>

(***************************************************************************)
(* The login specification: every operation of the API that writes, sent   *)
(* with every kind of Authorization header (none, a bearer that is no uuid, *)
(* the tokens of users 1 and 2, a uuid that is in no login row) for post 1  *)
(* (by user 1) and comment 1 (by user 2).                                   *)
(***************************************************************************)
AuthPersons == [i \in DOMAIN InitPersons |-> InitPersons[i] @@ [description |-> "none"]]

AuthPostBody == PostsCreateBody(FALSE, 1, FALSE, TRUE, FALSE)

InitAuth ==
    /\ person = AuthPersons
    /\ community_follow = {}
    /\ post = InitPostsPosts
    /\ reply = InitPostsReplies
    /\ post_like = EmptyBag
    /\ reply_like = EmptyBag
    /\ notification = EmptyBag
    /\ task = <<>>
    /\ worker_trigger = 0
    /\ spawned = EmptyBag
    /\ fetches = EmptyBag
    /\ processed = {}
    /\ nreq = 0
    /\ last = [op |-> "none"]
    /\ requests = EmptyBag
    /\ local_post_like_undo = <<>>
    /\ local_reply_like_undo = <<>>
    /\ worker = WorkerStarted
    /\ local_actor_name = {}
    /\ community_fetched = <<>>

\* The requests of one behaviour are of one family: posts created, the
\* profile patched, replies created, or likes, unlikes and deletes served
\* together.
AuthOnly(ops) ==
    /\ last.op \in {"none"} \cup ops
    /\ ops = {} => BagCardinality(requests) < MaxAuthRequests
    /\ ops # {} => requests = EmptyBag
    /\ (ops # {} \/ requests # EmptyBag) => reply = InitPostsReplies

AuthPostsCreate(token) ==
    AuthOnly({"posts_create"}) /\ route_unstable_posts_create(token, AuthPostBody)

AuthPostsDelete(token) == AuthOnly({}) /\ route_unstable_posts_delete_select(token, 1)

AuthCommentsDelete(token) == AuthOnly({}) /\ route_unstable_comments_delete_select(token, 1)

AuthPostsLike(token) == AuthOnly({}) /\ route_unstable_posts_like(token, 1)

AuthCommentsLike(token) == AuthOnly({}) /\ route_unstable_comments_like(token, 1)

AuthPostsUnlike(token) == AuthOnly({}) /\ route_unstable_posts_unlike(token, 1)

AuthCommentsUnlike(token) == AuthOnly({}) /\ route_unstable_comments_unlike(token, 1)

AuthPostsRepliesCreate(token) ==
    /\ last.op = "none" /\ requests = EmptyBag
    /\ \E body \in ReplyBodies : route_unstable_posts_replies_create(token, 1, body)

AuthCommentsRepliesCreate(token) ==
    /\ last.op = "none" /\ requests = EmptyBag
    /\ \E body \in ReplyBodies : route_unstable_comments_replies_create(token, 1, body)

AuthUsersMePatch(token) ==
    /\ AuthOnly({"users_me_patch"})
    /\ \E body \in UsersEditBodies : route_unstable_users_me_patch(token, body)

PostsCreateAny == \E token \in Tokens : AuthPostsCreate(token)

PostsDeleteAny == \E token \in Tokens : AuthPostsDelete(token)

CommentsDeleteAny == \E token \in Tokens : AuthCommentsDelete(token)

PostsLikeAny == \E token \in Tokens : AuthPostsLike(token)

CommentsLikeAny == \E token \in Tokens : AuthCommentsLike(token)

PostsUnlikeAny == \E token \in Tokens : AuthPostsUnlike(token)

CommentsUnlikeAny == \E token \in Tokens : AuthCommentsUnlike(token)

PostsRepliesCreateAny == \E token \in Tokens : AuthPostsRepliesCreate(token)

CommentsRepliesCreateAny == \E token \in Tokens : AuthCommentsRepliesCreate(token)

UsersMePatch == \E token \in Tokens : AuthUsersMePatch(token)

NextAuth ==
    \/ PostsCreateAny
    \/ PostsDeleteAny
    \/ PostsDeleteUpdate
    \/ CommentsDeleteAny
    \/ CommentsDeleteUpdate
    \/ PostsLikeAny
    \/ PostsLikeInsert
    \/ CommentsLikeAny
    \/ CommentsLikeInsert
    \/ PostsUnlikeAny
    \/ PostsUnlikeDelete
    \/ PostsUnlikeCommit
    \/ CommentsUnlikeAny
    \/ CommentsUnlikeDelete
    \/ CommentsUnlikeCommit
    \/ PostsRepliesCreateAny
    \/ CommentsRepliesCreateAny
    \/ UsersMePatch

SpecAuth == InitAuth /\ [][NextAuth]_vars

(***************************************************************************)
(* The reply-creation specification: the two routes with their responses,  *)
(* for every login, every target and every body, and the futures of the     *)
(* accepted ones.                                                           *)
(***************************************************************************)
ReplyCreateFrame == UNCHANGED <<person, community_follow, post, post_like, reply_like,
                                notification, task, worker_trigger, fetches, processed,
                                requests, local_post_like_undo, local_reply_like_undo,
                                worker, local_actor_name, community_fetched>>

ReplyLast(op, token, target, body, result) ==
    [op |-> op, user |-> authenticate(token), target |-> target, body |-> body,
     status |-> response_status(result)]

posts_replies_create_respond(token, post_id, body) ==
    /\ nreq < MaxReplyRequests
    /\ nreq' = nreq + 1
    /\ posts_replies_create_insert(token, post_id, body)
    /\ last' = ReplyLast("posts_replies_create", token, post_id, body,
                         posts_replies_create_result(token, post_id, body))
    /\ ReplyCreateFrame

comments_replies_create_respond(token, parent_id, body) ==
    /\ nreq < MaxReplyRequests
    /\ nreq' = nreq + 1
    /\ comments_replies_create_insert(token, parent_id, body)
    /\ last' = ReplyLast("comments_replies_create", token, parent_id, body,
                         comments_replies_create_result(token, parent_id, body))
    /\ ReplyCreateFrame

PostsRepliesCreateRespond ==
    \E token \in PostsTokens, post_id \in DOMAIN post \cup {Len(post) + 1}, body \in ReplyBodies :
        posts_replies_create_respond(token, post_id, body)

CommentsRepliesCreateRespond ==
    \E token \in PostsTokens, parent_id \in DOMAIN reply \cup {Len(reply) + 1}, body \in ReplyBodies :
        comments_replies_create_respond(token, parent_id, body)

NextReplyCreate ==
    \/ PostsRepliesCreateRespond
    \/ CommentsRepliesCreateRespond
    \/ RunCommentHook
    \/ RunInsertNotification
    \/ RunCommentFederation

SpecReplyCreate == InitComments /\ [][NextReplyCreate]_vars

(***************************************************************************)
(* The destinations of a like and of its Undo.  A like by the first local   *)
(* user of one post and of one comment on it, for every combination of a    *)
(* local or remote community and a local author, an author at the           *)
(* community's host or an author at a second remote host; the futures run   *)
(* to their end.                                                            *)
(***************************************************************************)
OtherUrl == "other"

FanoutPersons == InitPersons \o <<[local |-> FALSE, ap_id |-> Some(<<OtherUrl, "users", 1>>)]>>

FanoutPostTables ==
    {<<PostRow(Some(2), c, TRUE, None)>> : c \in DOMAIN community}
    \cup {<<PostRow(Some(a), c, FALSE, Some(<<Unwrap(FanoutPersons[a].ap_id)[1], "posts", 1>>))>> :
             a \in {3, 4}, c \in DOMAIN community}

FanoutReplyTables ==
    {<<ReplyRow(1, None, Some(2), TRUE, None)>>}
    \cup {<<ReplyRow(1, None, Some(a), FALSE,
                     Some(<<Unwrap(FanoutPersons[a].ap_id)[1], "comments", 1>>))>> : a \in {3, 4}}

InitLikeFanout ==
    /\ person = FanoutPersons
    /\ community_follow = {}
    /\ post \in FanoutPostTables
    /\ reply \in FanoutReplyTables
    /\ post_like = EmptyBag
    /\ reply_like = EmptyBag
    /\ notification = EmptyBag
    /\ task = <<>>
    /\ worker_trigger = 0
    /\ spawned = EmptyBag
    /\ fetches = EmptyBag
    /\ processed = {}
    /\ nreq = 0
    /\ last = NoRequest
    /\ requests = EmptyBag
    /\ local_post_like_undo = <<>>
    /\ local_reply_like_undo = <<>>
    /\ worker = WorkerStarted
    /\ local_actor_name = {}
    /\ community_fetched = <<>>

FanoutPostsLike == route_unstable_posts_like("uuid-1", 1)

FanoutCommentsLike == route_unstable_comments_like("uuid-1", 1)

FanoutPostsUnlike == route_unstable_posts_unlike("uuid-1", 1)

FanoutCommentsUnlike == route_unstable_comments_unlike("uuid-1", 1)

NextLikeFanout ==
    \/ FanoutPostsLike
    \/ PostsLikeInsert
    \/ FanoutCommentsLike
    \/ CommentsLikeInsert
    \/ RunPostLikeTask
    \/ RunCommentLikeTask
    \/ FanoutPostsUnlike
    \/ PostsUnlikeDelete
    \/ PostsUnlikeCommit
    \/ FanoutCommentsUnlike
    \/ CommentsUnlikeDelete
    \/ CommentsUnlikeCommit
    \/ RunPostLikeUndoTask
    \/ RunCommentLikeUndoTask

SpecLikeFanout == InitLikeFanout /\ [][NextLikeFanout]_vars

(***************************************************************************)
(* Properties of the community inbox.                                      *)
(***************************************************************************)
InboxStep == nreq' = nreq + 1 /\ last'.op = "inbox"

NoEffect ==
    /\ UNCHANGED dbvars
    /\ fetches' = fetches
    /\ spawned' = spawned
    /\ worker_trigger' = worker_trigger

\* The Follow document the origin serves for the posted activity id.
FollowDocOf(body) == Origin(Unwrap(body.aid))

IsFetchedFollow(body) ==
    /\ ~body.malformed
    /\ body.kind = "Follow"
    /\ body.aid # None
    /\ FollowDocOf(body).ok
    /\ FollowDocOf(body).kind = "Follow"

\* C1: a request whose signature is missing or invalid is answered 401 and
\* causes no database write, no outbound fetch and no spawned or enqueued task.
C1_UnsignedRejected ==
    [][(InboxStep /\ last'.req.sig # "valid") => (last'.status = 401 /\ NoEffect)]_vars

C3_FollowReplayAccepted ==
    [][(/\ InboxStep
        /\ IsFetchedFollow(last'.req.body)
        /\ <<last'.community_id, Unwrap(last'.req.body.aid)>> \in processed
        /\ FollowDocOf(last'.req.body).actor # None
        /\ \E f \in PersonIdsByApId(person, Unwrap(FollowDocOf(last'.req.body).actor)) :
              HasFollow(community_follow, last'.community_id, f))
       => (last'.status = 202 /\ UNCHANGED dbvars /\ spawned' = spawned)]_vars

C5_SeenIdIsNoop ==
    [][(/\ InboxStep
        /\ \E a \in last'.req.body.aid : <<last'.community_id, a>> \in processed)
       => (last'.status = 202 /\ NoEffect)]_vars

\* C6: an activity whose type is neither Create nor Follow, or a Create whose
\* embedded object is neither a Page nor a Note, returns 202 and changes no
\* state: no row is written, no remote fetch is made, no task is started.
C6_UnknownKindHasNoEffect ==
    [][(/\ InboxStep
        /\ ~last'.req.body.malformed
        /\ \/ last'.req.body.kind \notin {"Create", "Follow"}
           \/ last'.req.body.kind = "Create" /\ last'.req.body.obj \notin {"uri", "Page", "Note"})
       => (last'.status = 202 /\ NoEffect)]_vars

C6_Witness ==
    /\ last.op = "inbox"
    /\ last.status = 202
    /\ last.req.body.kind = "Create"
    /\ last.req.body.obj = "Video"
    /\ last.req.body.oid # None
    /\ nreq = 2
    /\ post # <<>>

\* C7: a body that cannot be parsed as an activity document is answered with
\* a 4xx status, never 5xx, and changes no state.
C7_MalformedIsClientError ==
    [][(InboxStep /\ last'.req.body.malformed)
       => (last'.status \in 400..499 /\ NoEffect)]_vars

(***************************************************************************)
(* Properties of comment notifications.                                    *)
(***************************************************************************)
\* The author of what reply r answers: its parent reply, or its post.
RepliedToAuthor(r) ==
    IF reply[r].parent = None THEN post[reply[r].post].author
    ELSE reply[Unwrap(reply[r].parent)].author

NotificationsFor(r) ==
    {n \in BagToSet(notification) : n.reply = r}
    \cup {t.row : t \in {x \in BagToSet(spawned) : x.kind = "insert_notification" /\ x.row.reply = r}}

HookPending(r) ==
    \E t \in BagToSet(spawned) : t.kind = "on_post_add_comment" /\ t.comment.id = r

\* C8: for every comment created by user u, if u is the author of the thing
\* replied to (the post of a top-level comment, the parent of a nested one),
\* no notification row is inserted (or about to be inserted) for it.
C8_NoSelfNotify ==
    \A r \in DOMAIN reply :
        (reply[r].author # None /\ reply[r].author = RepliedToAuthor(r))
            => NotificationsFor(r) = {}

C8_Witness ==
    \E r \in DOMAIN reply :
        /\ reply[r].parent # None
        /\ reply[r].local
        /\ reply[Unwrap(reply[r].parent)].local
        /\ reply[r].author = RepliedToAuthor(r)
        /\ ~HookPending(r)
        /\ \E i \in DOMAIN task : task[i].object = <<"Announce", <<HostUrlApub, "comments", r>>>>
        /\ BagToSet(notification) # {}

\* C9: every notification row is addressed to a local person who is the
\* author of the comment's direct parent and is not the commenter: post_reply
\* to the post's author for a top-level comment, reply_reply to the parent
\* reply's author for a nested one; at most one per comment; none when the
\* parent is remote or has no author.
C9_NotificationAddressedToParentAuthor ==
    \A n \in BagToSet(notification) :
        /\ n.reply \in DOMAIN reply
        /\ CopiesIn(n, notification) = 1
        /\ Cardinality({m \in BagToSet(notification) : m.reply = n.reply}) = 1
        /\ n.to_user \in DOMAIN person
        /\ person[n.to_user].local
        /\ Some(n.to_user) # reply[n.reply].author
        /\ Some(n.to_user) = RepliedToAuthor(n.reply)
        /\ IF reply[n.reply].parent = None
           THEN /\ n.kind = "post_reply"
                /\ post[reply[n.reply].post].local
                /\ n.parent_post = Some(reply[n.reply].post)
                /\ n.parent_reply = None
           ELSE /\ n.kind = "reply_reply"
                /\ reply[Unwrap(reply[n.reply].parent)].local
                /\ n.parent_reply = reply[n.reply].parent
                /\ n.parent_post = None

C9_Witness ==
    /\ \E n \in BagToSet(notification) : n.kind = "post_reply"
    /\ \E n \in BagToSet(notification) : n.kind = "reply_reply"
    /\ \A r \in DOMAIN reply : ~HookPending(r)

(***************************************************************************)
(* Properties of the like routes.                                          *)
(***************************************************************************)
LocalUserIds == {i \in DOMAIN person : person[i].local}

\* The answered requests of user u to like target (op names the route).
LikesAnswered(op, target, u) ==
    {r \in BagToSet(requests) :
        r.op = op /\ r.target = target /\ r.user = Some(u) /\ r.pc = "done"}

BagSum(B, S) ==
    LET RECURSIVE sum(_)
        sum(T) == IF T = {} THEN 0
                  ELSE LET x == CHOOSE y \in T : TRUE IN CopiesIn(x, B) + sum(T \ {x})
    IN  sum(S)

\* How many answered requests stored the row.
LikesInserted(op, target, u) ==
    BagSum(requests, {r \in LikesAnswered(op, target, u) : r.inserted})

\* The task rows that carry the Like of u for the target with this ap_id.
LikeRows(ap_id, u) ==
    {i \in DOMAIN task : task[i].object = local_like_to_ap(ap_id, u)}

\* How many Like activities of u for the target were built or will be.
LikesBuilt(kind, target, ap_id, u) ==
    CopiesIn(LikeTask(kind, target, u), spawned)
        + (IF LikeRows(ap_id, u) = {} THEN 0 ELSE 1)

LikedOnce(op, kind, table, target, ap_id, u) ==
    /\ CopiesIn(<<target, u>>, table) <= 1
    /\ \A r \in LikesAnswered(op, target, u) : r.status = 204
    /\ LikesInserted(op, target, u) = CopiesIn(<<target, u>>, table)
    /\ LikesBuilt(kind, target, ap_id, u) = LikesInserted(op, target, u)
    /\ \A i, j \in LikeRows(ap_id, u) : task[i] = task[j] => i = j

PostApId(p) == IF post[p].local THEN get_local_post_apub_id(p) ELSE Unwrap(post[p].ap_id)

CommentApId(c) == IF reply[c].local THEN get_local_comment_apub_id(c) ELSE Unwrap(reply[c].ap_id)

\* C10: however the like requests of one user for one post (or one comment)
\* interleave, at most one like row (target, person) exists, every such
\* request is answered 204, and exactly one of them, the one whose INSERT
\* stored the row, builds and queues a Like activity.
C10_ConcurrentLikesOnce ==
    \A u \in LocalUserIds :
        /\ \A p \in DOMAIN post :
              LikedOnce("posts_like", "post_like", post_like, p, PostApId(p), u)
        /\ \A c \in DOMAIN reply :
              LikedOnce("comments_like", "reply_like", reply_like, c, CommentApId(c), u)

\* Two requests of one user for one target were in flight together and both
\* are answered; the Like of the one that stored the row is queued.
C10_Witness ==
    /\ \E u \in LocalUserIds, p \in DOMAIN post :
          /\ BagSum(requests, LikesAnswered("posts_like", p, u)) >= 2
          /\ LikesInserted("posts_like", p, u) = 1
          /\ LikeRows(PostApId(p), u) # {}
    /\ \E u \in LocalUserIds, c \in DOMAIN reply :
          /\ LikesInserted("comments_like", c, u) = 1
          /\ LikeRows(CommentApId(c), u) # {}
    /\ spawned = EmptyBag

(***************************************************************************)
(* Properties of the unlike routes.                                        *)
(***************************************************************************)
UndoRowsOf(table, field, target, u) ==
    {i \in DOMAIN table : table[i][field] = target /\ table[i].person = u}

\* The Undo activities of undo row `undo` that are queued or about to be.
UndoRows(collection, undo, target, u) ==
    {i \in DOMAIN task : task[i].object = local_like_undo_to_ap(collection, undo, target, u)}

UnlikeAnswered(op) ==
    {r \in BagToSet(requests) : r.op = op /\ r.pc = "done" /\ r.user # None}

\* Like rows are only exchanged for undo rows, one for one, and an Undo is
\* only federated for an undo row.
UnlikePaired(unlike_op, like_op, kind, collection, likes, init_likes, undos, field, target, u) ==
    /\ CopiesIn(<<target, u>>, likes) + Cardinality(UndoRowsOf(undos, field, target, u))
          = CopiesIn(<<target, u>>, init_likes) + LikesInserted(like_op, target, u)
    /\ BagSum(requests, {r \in UnlikeAnswered(unlike_op) :
                            r.target = target /\ r.user = Some(u) /\ r.inserted})
          = Cardinality(UndoRowsOf(undos, field, target, u))
    /\ \A t \in BagToSet(spawned) :
          (t.kind = kind /\ t.target = target /\ t.user = u)
              => t.undo \in UndoRowsOf(undos, field, target, u)
    /\ \A i \in DOMAIN task :
          (task[i].object[1] = "Undo"
             /\ task[i].object[2] = get_local_person_apub_id(u)
             /\ task[i].object[3] = <<HostUrlApub, collection, target>>)
              => task[i].object[4] \in UndoRowsOf(undos, field, target, u)

\* C11: an unlike inserts an undo row if and only if it deleted a like row,
\* and both take effect together or not at all; an unlike that finds no like
\* creates no undo row, federates no Undo and is still answered 204.
C11_UndoIffLikeDeleted ==
    /\ \A u \in LocalUserIds :
          /\ \A p \in DOMAIN post \cup {Len(post) + 1} :
                UnlikePaired("posts_unlike", "posts_like", "post_like_undo", "posts", post_like,
                             InitPostLikes, local_post_like_undo, "post", p, u)
          /\ \A c \in DOMAIN reply \cup {Len(reply) + 1} :
                UnlikePaired("comments_unlike", "comments_like", "reply_like_undo", "comments",
                             reply_like, InitReplyLikes, local_reply_like_undo, "reply", c, u)
    /\ \A r \in UnlikeAnswered("posts_unlike") \cup UnlikeAnswered("comments_unlike") :
          \/ r.status = 204
          \/ r.status = 500 /\ ~r.inserted

C11_Witness ==
    /\ \E r \in UnlikeAnswered("posts_unlike") :
          /\ r.inserted /\ r.status = 204
          /\ ~BagIn(<<r.target, Unwrap(r.user)>>, post_like)
          /\ UndoRowsOf(local_post_like_undo, "post", r.target, Unwrap(r.user)) # {}
    /\ \E r \in UnlikeAnswered("posts_unlike") \cup UnlikeAnswered("comments_unlike") :
          /\ ~r.inserted /\ r.status = 204
          /\ UndoRowsOf(local_post_like_undo, "post", r.target, Unwrap(r.user)) = {}
          /\ UndoRowsOf(local_reply_like_undo, "reply", r.target, Unwrap(r.user)) = {}

\* The task rows before row i that deliver the Like of u for post p to the
\* destination of row i.
LikeQueuedBefore(i, p, u) ==
    {j \in 1..(i - 1) :
        /\ task[j].object = local_like_to_ap(PostApId(p), u)
        /\ task[j].kind = task[i].kind
        /\ task[j].inbox = task[i].inbox}

\* C12: when a user's like of a post has been answered and the user then
\* unlikes it, every destination has the Like queued before the Undo of it.
C12_LikeQueuedBeforeUndo ==
    \A i \in DOMAIN task, p \in DOMAIN post, u \in LocalUserIds :
        (/\ ~BagIn(<<p, u>>, InitPostLikes)
         /\ LikesInserted("posts_like", p, u) > 0
         /\ task[i].object[1] = "Undo"
         /\ task[i].object[2] = get_local_person_apub_id(u)
         /\ task[i].object[3] = <<HostUrlApub, "posts", p>>)
            => LikeQueuedBefore(i, p, u) # {}

(***************************************************************************)
(* Properties of failing federation futures.                               *)
(***************************************************************************)
\* The activity a spawned like or unlike future is to queue.
ActivityOf(t) ==
    IF t.kind = "post_like" THEN local_like_to_ap(PostApId(t.target), t.user)
    ELSE IF t.kind = "reply_like" THEN local_like_to_ap(CommentApId(t.target), t.user)
    ELSE IF t.kind = "post_like_undo"
         THEN local_like_undo_to_ap("posts", t.undo, t.target, t.user)
         ELSE local_like_undo_to_ap("comments", t.undo, t.target, t.user)

\* C15: an error while the outbound activity of a request is built or queued
\* does not reach the request: when a federation future ends, the responses
\* given and the committed rows are as before, and the activity is queued
\* (or the future is still there to be retried) rather than lost.
C15_FederationErrorsRetried ==
    [][\A t \in BagToSet(spawned) :
          (t.kind \in FederationKinds /\ CopiesIn(t, spawned') < CopiesIn(t, spawned))
              => /\ requests' = requests
                 /\ UNCHANGED <<post, reply, post_like, reply_like,
                                local_post_like_undo, local_reply_like_undo>>
                 /\ \E i \in DOMAIN task' : task'[i].object = ActivityOf(t)]_vars

(***************************************************************************)
(* Properties of enqueue_task.                                             *)
(***************************************************************************)
EnqueueCalls(pc) == {r \in BagToSet(requests) : r.op = "enqueue_task" /\ r.pc = pc}

\* C14: enqueue_task never blocks on the trigger channel and loses no
\* wake-up: once it has returned Ok its row is in the table and a token is
\* pending in the channel, or the worker has woken after the INSERT and is
\* about to claim the row or has claimed it; it returns an error only for a
\* closed channel, never for a full one.
C14_EnqueueLosesNoWakeup ==
    /\ \A r \in EnqueueCalls("try_send") : ENABLED enqueue_task_try_send(r)
    /\ \A r \in EnqueueCalls("returned") :
          /\ r.row \in DOMAIN task
          /\ r.ok => \/ worker_trigger = 1
                     \/ worker.pc = "scan"
                     \/ r.row \in worker.done
          /\ ~r.ok => worker.pc = "stopped"
    /\ worker_trigger \in {0, 1}

\* Two calls have returned Ok on one pending token: the second found the
\* channel full.
C14_Witness ==
    /\ worker.pc = "recv"
    /\ worker_trigger = 1
    /\ \E r \in EnqueueCalls("returned") :
          r.ok /\ CopiesIn(r, requests) = 1 /\ r.row \notin worker.done
              /\ \E q \in EnqueueCalls("returned") :
                    q # r /\ q.ok /\ q.row \notin worker.done

(***************************************************************************)
(* Properties of POST /posts and of the delete routes.                     *)
(***************************************************************************)
FieldsPresent(body) ==
    (IF body.href THEN 1 ELSE 0) + (IF body.content_text THEN 1 ELSE 0)
        + (IF body.content_markdown THEN 1 ELSE 0)

\* C17 as stated: POST /posts accepts a request only when exactly one of
\* href, content_text and content_markdown is present, and answers every
\* other combination with 400.
C17_ExactlyOneField ==
    (last.op = "posts_create" /\ last.user # None /\ ~last.target.malformed)
        => IF FieldsPresent(last.target) = 1
           THEN last.status \in {200, 500}
           ELSE last.status = 400

\* C17, amended: POST /posts by a logged-in user with a well-formed body
\* accepts the request only when at least one of href, content_text and
\* content_markdown is present and content_text and content_markdown are not
\* both present; a body with none of the three, or with both content_text
\* and content_markdown, is answered 400 and no post row is created; every
\* other body for an existing community is answered 200 and creates one row.
C17_FieldCombinations ==
    [][\A token \in PostsTokens, body \in PostsCreateBodies :
         (/\ route_unstable_posts_create(token, body)
          /\ authenticate(token) # None
          /\ ~body.malformed)
         => IF FieldsPresent(body) = 0 \/ (body.content_text /\ body.content_markdown)
            THEN last'.status = 400 /\ post' = post /\ spawned' = spawned
            ELSE IF body.community \in DOMAIN community
                 THEN /\ last'.status = 200
                      /\ Len(post') = Len(post) + 1
                      /\ SubSeq(post', 1, Len(post)) = post
                 ELSE last'.status = 500 /\ post' = post]_vars

C17_Witness ==
    /\ last.op = "posts_create"
    /\ last.status = 200
    /\ last.target.href
    /\ last.target.content_text
    /\ Len(post) = Len(InitPostsPosts) + 1
    /\ post[Len(post)].href # None
    /\ post[Len(post)].content_text # None

\* C18: after the author's DELETE of a post has succeeded the row is still
\* there with deleted = true, and href, content_text, content_markdown and
\* content_html are all NULL.
C18_DeletedPostPayloadNull ==
    /\ Len(post) >= Len(InitPostsPosts)
    /\ \A id \in DOMAIN post :
         post[id].deleted
           => /\ post[id].href = None
              /\ post[id].content_text = None
              /\ post[id].content_markdown = None
              /\ post[id].content_html = None

\* The Delete activities that have been built: held by a spawned future or
\* stored in a task row.
DeletesBuilt ==
    {t.delete_ap : t \in {u \in BagToSet(spawned) : u.kind = "delete"}}
    \cup {t.row.object : t \in {u \in BagToSet(spawned) : u.kind = "enqueue_task"}}
    \cup {task[i].object : i \in {j \in DOMAIN task : task[j].object[1] = "Delete"}}

\* The author of the object a Delete activity names.
DeletedObjectAuthor(d) ==
    IF d[3][2] = "posts" THEN post[d[3][3]].author ELSE reply[d[3][3]].author

DeleteActorsAreAuthors ==
    \A d \in DeletesBuilt :
        \E n \in DOMAIN person :
            d[2] = get_local_person_apub_id(n) /\ DeletedObjectAuthor(d) = Some(n)

\* C19 as stated: a DELETE of a post or comment by a logged-in user who is
\* not its author is answered 403.
C19_NonAuthorForbidden ==
    /\ (/\ last.op = "posts_delete"
        /\ last.user # None
        /\ last.target \in DOMAIN post
        /\ post[last.target].author # last.user) => last.status = 403
    /\ (/\ last.op = "comments_delete"
        /\ last.user # None
        /\ last.target \in DOMAIN reply
        /\ reply[last.target].author # last.user) => last.status = 403

\* C19, amended: a DELETE of a post or comment by a logged-in user who is
\* not its author is answered 403 while the object is not yet deleted and
\* 204 once it is; either way the row is left unchanged and no Delete
\* activity is produced.  A Delete activity is only ever built with the
\* author of the deleted object as its actor.
C19_NonAuthorDeleteHasNoEffect ==
    [][/\ \A token \in PostsTokens, id \in DOMAIN post :
            (/\ route_unstable_posts_delete(token, id)
             /\ authenticate(token) # None
             /\ post[id].author # authenticate(token))
            => /\ last'.status = IF post[id].deleted THEN 204 ELSE 403
               /\ UNCHANGED <<post, reply, spawned, task>>
       /\ \A token \in PostsTokens, id \in DOMAIN reply :
            (/\ route_unstable_comments_delete(token, id)
             /\ authenticate(token) # None
             /\ reply[id].author # authenticate(token))
            => /\ last'.status = IF reply[id].deleted THEN 204 ELSE 403
               /\ UNCHANGED <<post, reply, spawned, task>>
       /\ DeleteActorsAreAuthors']_vars

C19_Witness ==
    /\ last.op = "posts_delete"
    /\ last.user = Some(2)
    /\ last.status = 204
    /\ last.target = 1
    /\ post[1].author = Some(1)
    /\ post[1].deleted
    /\ DeletesBuilt = {local_post_delete_to_ap(1, 1)}

(***************************************************************************)
(* Properties of the routing of local activities.                          *)
(***************************************************************************)
\* The local mutations made so far: posts and comments created through the
\* API, and posts and comments deleted.
LocalMutations ==
    {<<"created", get_local_post_apub_id(id)>> :
         id \in (Len(InitPostsPosts) + 1)..Len(post)}
    \cup {<<"created", get_local_comment_apub_id(id)>> :
              id \in (Len(InitPostsReplies) + 1)..Len(reply)}
    \cup {<<"deleted", get_local_post_apub_id(id)>> :
              id \in {i \in DOMAIN post : post[i].deleted}}
    \cup {<<"deleted", get_local_comment_apub_id(id)>> :
              id \in {i \in DOMAIN reply : reply[i].deleted}}

\* The community a local object belongs to.
ObjectCommunity(ap_id) ==
    IF ap_id[2] = "posts" THEN post[ap_id[3]].community
    ELSE post[reply[ap_id[3]].post].community

\* The task rows that carry the activity of a mutation.
TasksAbout(m) ==
    {i \in DOMAIN task :
        IF m[1] = "deleted"
        THEN task[i].object[1] = "Delete" /\ task[i].object[3] = m[2]
        ELSE task[i].object[1] \in {"Create", "Announce"} /\ task[i].object[2] = m[2]}

ActorOf(url) == {u \in DOMAIN person : get_local_person_apub_id(u) = url}

\* The like row (target, person) a Like activity reports is stored.
LikeRowPresent(o) ==
    \/ \E p \in DOMAIN post, u \in ActorOf(o[2]) :
          o[3] = PostApId(p) /\ BagIn(<<p, u>>, post_like)
    \/ \E c \in DOMAIN reply, u \in ActorOf(o[2]) :
          o[3] = CommentApId(c) /\ BagIn(<<c, u>>, reply_like)

\* The like row a Like activity reports was stored and a later unlike has
\* exchanged it for an undo row.
LikeRowUndone(o) ==
    \/ \E p \in DOMAIN post, u \in ActorOf(o[2]) :
          o[3] = PostApId(p) /\ UndoRowsOf(local_post_like_undo, "post", p, u) # {}
    \/ \E c \in DOMAIN reply, u \in ActorOf(o[2]) :
          o[3] = CommentApId(c) /\ UndoRowsOf(local_reply_like_undo, "reply", c, u) # {}

\* The undo row an Undo activity names is stored.
UndoRowPresent(o) ==
    \E u \in ActorOf(o[2]) :
        IF o[3][2] = "posts"
        THEN o[4] \in UndoRowsOf(local_post_like_undo, "post", o[3][3], u)
        ELSE o[4] \in UndoRowsOf(local_reply_like_undo, "reply", o[3][3], u)

\* The post or comment a Create, Announce or Delete names is stored, and
\* marked deleted for a Delete.
ObjectRowPresent(ap_id, deleted) ==
    IF ap_id[2] = "posts"
    THEN ap_id[3] \in DOMAIN post /\ (deleted => post[ap_id[3]].deleted)
    ELSE ap_id[3] \in DOMAIN reply /\ (deleted => reply[ap_id[3]].deleted)

TaskRowCommitted(o, undone_counts) ==
    CASE o[1] = "Like" -> LikeRowPresent(o) \/ (undone_counts /\ LikeRowUndone(o))
      [] o[1] = "Undo" -> UndoRowPresent(o)
      [] o[1] \in {"Create", "Announce"} /\ o[2][1] = HostUrlApub -> ObjectRowPresent(o[2], FALSE)
      [] o[1] = "Delete" -> ObjectRowPresent(o[3], TRUE)
      [] OTHER -> TRUE

\* C13 as stated: no reachable state holds a task row about a local mutation
\* while the row the activity refers to is absent or uncommitted.
C13_TaskRowPresent ==
    \A i \in DOMAIN task : TaskRowCommitted(task[i].object, FALSE)

\* C13, amended: a task row about a local mutation is only inserted after
\* the write of that mutation has committed: in every reachable state the
\* row the activity refers to is committed and present, or it is a like row
\* that was committed and that a later committed unlike has exchanged for an
\* undo row.
C13_TaskAfterCommit ==
    \A i \in DOMAIN task : TaskRowCommitted(task[i].object, TRUE)

\* An unlike has deleted the like row inside its transaction and not yet
\* committed, while the Like and the Undo of an earlier like and unlike of
\* another target are queued.
C13_Witness ==
    /\ \E r \in BagToSet(requests) : r.pc = "commit" /\ r.inserted
    /\ \E i \in DOMAIN task : task[i].object[1] = "Undo"
    /\ \E i \in DOMAIN task :
         task[i].object[1] = "Like" /\ ~LikeRowPresent(task[i].object)

(***************************************************************************)
(* Properties of the reply tree.                                           *)
(***************************************************************************)
\* C20: every reply with a parent belongs to the post of its parent, and a
\* reply to a comment that does not exist is answered 404 and stores no
\* row.
C20_ReplyInPostOfParent ==
    /\ \A r \in DOMAIN reply :
         \A p \in reply[r].parent :
             p \in DOMAIN reply /\ reply[r].post = reply[p].post
    /\ \A token \in Tokens, body \in ReplyBodies :
         (require_login(token).err = "none" /\ ~body.malformed /\ reply_body_valid(body))
           => /\ comments_replies_create_result(token, Len(reply) + 1, body) = UserError(404)
              /\ ~ENABLED (/\ route_unstable_comments_replies_create(token, Len(reply) + 1,
                                                                     body)
                           /\ reply' # reply)

\* A local reply to a comment on a post other than the first.
C20_Witness ==
    \E r \in DOMAIN reply :
        /\ reply[r].local
        /\ reply[r].parent # None
        /\ reply[r].post # 1
        /\ reply[Unwrap(reply[r].parent)].post = reply[r].post

RECURSIVE TopLevelWithin(_, _)
\* Following parent pointers from reply r reaches a top-level reply in at
\* most `steps` steps.
TopLevelWithin(r, steps) ==
    IF reply[r].parent = None THEN TRUE
    ELSE IF steps = 0 \/ Unwrap(reply[r].parent) \notin DOMAIN reply THEN FALSE
    ELSE TopLevelWithin(Unwrap(reply[r].parent), steps - 1)

\* C21: the parent of every reply was inserted before the reply, so the
\* parent relation has no cycle and every reply has a top-level ancestor.
C21_ParentsPredateChildren ==
    \A r \in DOMAIN reply :
        /\ \A p \in reply[r].parent : p < r
        /\ TopLevelWithin(r, Len(reply))

\* The table is full and its last reply, made through the API, answers an
\* earlier reply.
C21_Witness ==
    /\ Len(reply) = MaxReplies
    /\ reply[Len(reply)].local
    /\ reply[Len(reply)].parent # None
    /\ Unwrap(reply[Len(reply)].parent) < Len(reply)

(***************************************************************************)
(* Properties of POST /users.                                              *)
(***************************************************************************)
LocalPersonsNamed(name) ==
    {i \in DOMAIN person : person[i].local /\ person[i].username = name}

UsersCreateAnswered == {r \in BagToSet(requests) : r.op = "users_create" /\ r.pc = "done"}

C23_ResponseForResult ==
    last.op = "serve"
      => CASE last.result.kind \in {"Ok", "UserError"} ->
                last.response = last.result.response
           [] last.result.kind = "RoutingError" ->
                /\ last.response.status \in {404, 405}
                /\ last.response.status = 404 <=> last.result.detail = "NotFound"
           [] OTHER ->
                /\ last.response.status = 500
                /\ last.response.body = "Internal Server Error"

\* An InternalStrStatic error with its own text has been answered.
C23_Witness ==
    /\ last.op = "serve"
    /\ last.result.kind = "InternalStrStatic"
    /\ last.result.detail = "Worker channel closed"
    /\ last.response = Response(500, "Internal Server Error")
    /\ nreq = MaxServed

(***************************************************************************)
(* Properties of the GET handlers of /communities.                         *)
(***************************************************************************)
ApubAnswered(op) == "op" \in DOMAIN last /\ last.op = op

CommunityKnown(c) == c \in DOMAIN community_table

\* C24: GET /communities/{id} answers 404 for an id without a community
\* row, 400 for a community of another instance, and for a local community
\* 200 with a Group whose id is {base}/communities/{id}, whose inbox is that
\* URL followed by /inbox and whose followers is that URL followed by
\* /followers.
C24_GroupDocument ==
    ApubAnswered("communities_get") =>
        LET c == last.params[1]
            res == last.response
        IN  /\ ~CommunityKnown(c) => res.status = 404 /\ res.doc = None
            /\ CommunityKnown(c) /\ ~community_table[c].local =>
                   res.status = 400 /\ res.doc = None
            /\ CommunityKnown(c) /\ community_table[c].local =>
                   /\ res.status = 200
                   /\ res.doc = {[type |-> "Group",
                                  id |-> <<HostUrlApub, "communities", c>>,
                                  inbox |-> <<HostUrlApub, "communities", c, "inbox">>,
                                  followers |-> <<HostUrlApub, "communities", c, "followers">>]}

C24_Witness ==
    /\ ApubAnswered("communities_get")
    /\ CommunityKnown(last.params[1])
    /\ community_table[last.params[1]].local
    /\ last.response.status = 200
    /\ community_follow # {}

FollowStored(c, u) == \E r \in community_follow : r.community = c /\ r.follower = u

LocalPerson(u) == u \in DOMAIN person /\ person[u].local

\* C25: GET /communities/{c}/followers/{u} answers with a Follow exactly
\* when a community_follow row (c, u) is stored and u is a local person; the
\* id of the Follow is the URL it is served at, its actor is
\* {base}/users/{u} and its object is the ActivityPub id of community c.
\* Without such a row the answer is 404.
C25_FollowDocument ==
    ApubAnswered("followers_get") =>
        LET c == last.params[1]
            u == last.params[2]
            res == last.response
        IN  /\ res.status = 200 <=> FollowStored(c, u) /\ LocalPerson(u)
            /\ ~FollowStored(c, u) => res.status = 404 /\ res.doc = None
            /\ res.status = 200 =>
                   res.doc = {[type |-> "Follow",
                               id |-> <<HostUrlApub, "communities", c, "followers", u>>,
                               actor |-> <<HostUrlApub, "users", u>>,
                               object |-> IF community_table[c].local
                                          THEN <<HostUrlApub, "communities", c>>
                                          ELSE Unwrap(community_table[c].ap_id)]}
            /\ res.status # 200 => res.doc = None

C25_Witness ==
    /\ ApubAnswered("followers_get")
    /\ last.response.status = 200
    /\ ~community_table[last.params[1]].local
    /\ \E r \in community_follow : ~person[r.follower].local
    /\ \E r \in community_follow : r.follower # last.params[2] /\ r.community = last.params[1]

\* The community in which the post or comment of an announce request is.
AnnouncedIn(op, object_id) ==
    IF op = "posts_announce"
    THEN IF object_id \in DOMAIN post THEN {post[object_id].community} ELSE {}
    ELSE IF object_id \in DOMAIN reply /\ reply[object_id].post \in DOMAIN post
         THEN {post[reply[object_id].post].community}
         ELSE {}

\* C26: the announce requests for a post and for a comment answer with an
\* Announce only when the post or comment is in community c and c is a
\* community of this instance; when it is not in c the answer is 404, and
\* for a remote c no Announce is produced.
C26_AnnounceOnlyByLocalCommunity ==
    \A op \in {"posts_announce", "comments_announce"} :
        ApubAnswered(op) =>
            LET c == last.params[1]
                res == last.response
            IN  /\ res.status = 200 =>
                       /\ c \in AnnouncedIn(op, last.params[2])
                       /\ CommunityKnown(c) /\ community_table[c].local
                /\ c \notin AnnouncedIn(op, last.params[2]) => res.status = 404

FollowersOf(c) == {u \in DOMAIN person : FollowStored(c, u)}

\* C27: GET /communities/{id}/followers answers 200 with a Collection whose
\* totalItems is the number of community_follow rows of community id at the
\* time of the request, whatever follows came before.
C27_TotalItemsCountsFollows ==
    ApubAnswered("followers_list") =>
        /\ last.response.status = 200
        /\ last.response.doc = {[type |-> "Collection",
                                 totalItems |-> Cardinality(FollowersOf(last.params[1]))]}

C27_Witness ==
    /\ ApubAnswered("followers_list")
    /\ Cardinality(FollowersOf(last.params[1])) = 2
    /\ Cardinality(community_follow) > 2

(***************************************************************************)
(* Properties of the actor lookup.                                         *)
(***************************************************************************)
LookupStep == nreq' = nreq + 1 /\ last'.op = "actors_lookup"

SelfLinks(links) ==
    {i \in DOMAIN links : /\ links[i].rel = "self"
                          /\ links[i].type_ = {"application/activity+json"}
                          /\ links[i].href # {}}

FirstSelfHref(links) ==
    LET first == CHOOSE i \in SelfLinks(links) : \A j \in SelfLinks(links) : i <= j
    IN  Unwrap(links[first].href)

LookupWroteNothing == UNCHANGED <<person, community_fetched, fetches, dbvars>>

\* The lookup of user@host found no actor URL: the answer is 200 with an
\* empty list, nothing is fetched and nothing is written.
WebFingerNothingFound(finger, response) ==
    finger.status = 404 \/ (finger.status = 200 /\ SelfLinks(finger.links) = {}) =>
        /\ response = LookupResponse(200, <<>>)
        /\ last'.uri_str = None
        /\ LookupWroteNothing

\* The statement of C28 as it is written: the URL that is fetched is the
\* href of the first self link of the activity type.
C28_FetchedUrlIsHref ==
    [][LookupStep /\ last'.query.kind = "webfinger" =>
        LET finger == last'.finger
        IN  /\ WebFingerNothingFound(finger, last'.response)
            /\ finger.status = 200 /\ SelfLinks(finger.links) # {} =>
                   LET href == FirstSelfHref(finger.links)
                   IN  /\ last'.uri_str \in {None, Some(href)}
                       /\ fetches' \in {fetches, fetches (+) SetToBag({href})}]_vars

\* C28: for a lookup of user@host the actor URL that is fetched is the href
\* of the first link, in the order of the WebFinger response, whose rel is
\* self, whose type is application/activity+json and which has an href, as
\* hyper::Uri parses and prints it: the href without its fragment.  An href
\* that is no URI is the handler's error and nothing is fetched.  When
\* WebFinger answers 404 or no link qualifies, the answer is 200 with an
\* empty list, no actor is fetched and nothing is written.
C28_FirstSelfLinkFetched ==
    [][LookupStep /\ last'.query.kind = "webfinger" =>
        LET finger == last'.finger
        IN  /\ WebFingerNothingFound(finger, last'.response)
            /\ finger.status = 200 /\ SelfLinks(finger.links) # {} =>
                   LET href == FirstSelfHref(finger.links)
                       fetched == Href(href.url, None)
                   IN  IF href.url = <<>>
                       THEN /\ last'.uri_str = None
                            /\ last'.response.status = 500
                            /\ LookupWroteNothing
                       ELSE /\ last'.uri_str = Some(fetched)
                            /\ fetches' \in {fetches, fetches (+) SetToBag({fetched})}]_vars

C28_Witness ==
    /\ last.op = "actors_lookup"
    /\ last.query.kind = "webfinger"
    /\ last.finger.status = 200
    /\ Len(last.finger.links) = 2
    /\ SelfLinks(last.finger.links) = {1, 2}
    /\ last.finger.links[1].href # last.finger.links[2].href
    /\ last.finger.links[1].href = Some(Href(PeerGroup(3), Some("main")))
    /\ last.uri_str = Some(Href(PeerGroup(3), None))
    /\ BagIn(Href(PeerGroup(3), None), fetches)
    /\ last.response.status = 200

\* The actor a lookup resolved to: the kind of the actor at the URL given to
\* the actor fetch.
ResolvedKind ==
    IF last.op = "actors_lookup" /\ last.uri_str # None
    THEN LookupOrigin(Unwrap(last.uri_str).url).kind
    ELSE ""

StoredCommunityIds(url) ==
    {i \in DOMAIN community_table :
        ~community_table[i].local /\ community_table[i].ap_id = {url}}

\* C29: a lookup that resolves to a remote community answers 200 with a list
\* of one element, the local id of the community row that holds that
\* community, and the row is in the table when the response is produced; a
\* lookup that resolves to an actor that is no community answers 400
\* 'Not a group'.
C29_LookupReturnsStoredCommunity ==
    /\ ResolvedKind = "Group" =>
           /\ last.response.status = 200
           /\ Len(last.response.body) = 1
           /\ last.response.body[1].id \in StoredCommunityIds(Unwrap(last.uri_str).url)
           /\ Cardinality(StoredCommunityIds(Unwrap(last.uri_str).url)) = 1
    /\ ResolvedKind = "Person" =>
           last.response = [status |-> 400, body |-> "Not a group"]

C29_Witness ==
    /\ ResolvedKind = "Group"
    /\ last.query.kind = "webfinger"
    /\ last.response.body = <<[id |-> 3]>>
    /\ Len(community_fetched) = 1
    /\ Len(person) > Len(InitPersons)

(***************************************************************************)
(* Properties of the attempts of a task row.                               *)
(***************************************************************************)
\* The rows in the table, and the rows a step inserts and deletes.
TaskIds == DOMAIN task \ worker.done

TasksInserted == DOMAIN task' \ DOMAIN task

TasksRemoved == worker'.done \ worker.done

AttemptsWithinMax ==
    /\ \A id \in TasksInserted :
           task'[id].attempts = 0 /\ task'[id].max_attempts = 8
    /\ \A id \in DOMAIN task' \ worker'.done :
           task'[id].attempts <= task'[id].max_attempts
    /\ \A id \in DOMAIN task : task'[id].max_attempts = task[id].max_attempts

TreeAnswered(op) == "op" \in DOMAIN last /\ last.op = op /\ last.status = 200

RECURSIVE Nesting(_)
\* The number of levels of a list of comments: 0 for an empty list, and
\* one more than the deepest list of replies below it otherwise.
Nesting(list) ==
    IF list = <<>> THEN 0
    ELSE LET below == {IF list[i].replies = {} THEN 0 ELSE Nesting(Unwrap(list[i].replies)) :
                          i \in DOMAIN list}
         IN  1 + CHOOSE n \in below : \A m \in below : m <= n

ParentCycle == \E a, b \in DOMAIN reply : reply[a].parent = {b} /\ reply[b].parent = {a}

\* C31: the reply tree is built for every content of the reply table,
\* cyclic parent pointers included: get_comments_replies with depth d makes
\* at most d + 1 nested child queries, so the comments of a post response
\* nest at most 3 levels (the top-level comments and 2 levels of replies)
\* and the replies of a comment response at most 4 levels below the
\* requested comment.
C31_ReplyTreeBounded ==
    /\ TreeAnswered("posts_get") =>
           /\ last.levels <= 2
           /\ Nesting(last.comments) <= 3
    /\ TreeAnswered("comments_get") =>
           /\ last.levels <= 3 + 1
           /\ Nesting(last.comments) <= 1 + 4

C31_Witness ==
    /\ TreeAnswered("comments_get")
    /\ ParentCycle
    /\ Nesting(last.comments) = 5
    /\ last.levels = 4

DirectChildren(id) == {r \in DOMAIN reply : reply[r].parent = {id}}

ListIds(list) == {list[i].id : i \in DOMAIN list}

RECURSIVE TreeFaithful(_, _, _)
\* Every comment of the list, which is at this level, and of the lists
\* below it: has_replies says whether the comment has children; replies is
\* NULL exactly at the limit, and otherwise lists the direct children, each
\* of them once.
TreeFaithful(list, level, limit) ==
    \A i \in DOMAIN list :
        LET c == list[i]
        IN  /\ c.has_replies <=> DirectChildren(c.id) # {}
            /\ c.replies = {} <=> level = limit
            /\ c.replies # {} =>
                   /\ ListIds(Unwrap(c.replies)) = DirectChildren(c.id)
                   /\ Len(Unwrap(c.replies)) = Cardinality(DirectChildren(c.id))
                   /\ TreeFaithful(Unwrap(c.replies), level + 1, limit)

\* C32: for every comment of a post or comment response, at every level,
\* has_replies is true if and only if some reply row has the comment as its
\* parent; replies is the list of exactly the direct children of the
\* comment where the level was expanded, and is NULL exactly for the
\* comments at the depth limit (level 3 of a post response, 4 levels below
\* the comment of a comment response).
C32_HasRepliesAndChildren ==
    /\ TreeAnswered("posts_get") => TreeFaithful(last.comments, 1, 3)
    /\ TreeAnswered("comments_get") => TreeFaithful(last.comments, 1, 5)

C32_Witness ==
    /\ TreeAnswered("posts_get")
    /\ ~ParentCycle
    /\ Nesting(last.comments) = 3
    /\ \E i \in DOMAIN last.comments :
           /\ last.comments[i].has_replies
           /\ \E j \in DOMAIN Unwrap(last.comments[i].replies) :
                  LET second == Unwrap(last.comments[i].replies)[j]
                  IN  \E k \in DOMAIN Unwrap(second.replies) :
                          /\ Unwrap(second.replies)[k].has_replies
                          /\ Unwrap(second.replies)[k].replies = {}

(***************************************************************************)
(* Properties of what the inbox stores.                                    *)
(***************************************************************************)
\* The id whose document the handler requests first: the activity id of a
\* Follow, the id of the object of a Create.
FirstGet(body) ==
    CASE body.kind = "Follow" -> body.aid
      [] body.kind = "Create" /\ body.obj \in {"uri", "Page", "Note"} -> body.oid
      [] OTHER -> {}

NewRows(before, after) == {after[i] : i \in (Len(before) + 1)..Len(after)}

\* The rows a step stores are those of the document at the origin.
StoredFromOrigin(c, body) ==
    /\ \A row \in NewRows(post, post') :
           /\ body.kind = "Create" /\ row.ap_id = body.oid
           /\ Origin(Unwrap(body.oid)).kind = "Page"
           /\ row.community = c
           /\ row.author # {}
           /\ person'[Unwrap(row.author)].ap_id = Origin(Unwrap(body.oid)).actor
    /\ \A row \in NewRows(reply, reply') :
           /\ body.kind = "Create" /\ row.ap_id = body.oid
           /\ Origin(Unwrap(body.oid)).kind = "Note"
           /\ post'[row.post].ap_id = Origin(Unwrap(body.oid)).object
           /\ row.author # {}
           /\ person'[Unwrap(row.author)].ap_id = Origin(Unwrap(body.oid)).actor
    /\ \A row \in community_follow' \ community_follow :
           /\ body.kind = "Follow" /\ row.community = c
           /\ Origin(Unwrap(body.aid)).kind = "Follow"
           /\ Origin(Unwrap(body.aid)).object = {<<HostUrlApub, "communities", c>>}
           /\ person'[row.follower].ap_id = Origin(Unwrap(body.aid)).actor
    /\ \A row \in NewRows(person, person') :
           /\ FirstGet(body) # {}
           /\ row.ap_id = Origin(Unwrap(FirstGet(body))).actor

\* C33: what an inbound Create or Follow stores comes from the document
\* that a GET of the id of the object (of the activity, for a Follow) gets
\* at its origin, never from the object embedded in the body; when that
\* GET fails or answers with a status that is no success, nothing is
\* stored, no task is started and the answer is not 202.
C33_StoredFromFetchedDocument ==
    [][InboxStep =>
        LET body == last'.req.body
        IN  /\ StoredFromOrigin(last'.community_id, body)
            /\ FirstGet(body) # {} /\ ~Origin(Unwrap(FirstGet(body))).ok =>
                   /\ last'.status # 202
                   /\ UNCHANGED dbvars
                   /\ spawned' = spawned]_vars

C33_Witness ==
    /\ last.op = "inbox"
    /\ last.req.body.kind = "Create"
    /\ last.req.body.obj = "Page"
    /\ last.status = 202
    /\ Len(reply) = 1
    /\ reply[1].ap_id = last.req.body.oid
    /\ Len(post) = 1

(***************************************************************************)
(* The destinations of a like or unlike, read from the rows of the target,  *)
(* its author and its community.                                            *)
(***************************************************************************)
FanoutTarget(t) == IF t.kind \in {"post_like", "post_like_undo"} THEN post[t.target] ELSE reply[t.target]

FanoutCommunity(t) ==
    IF t.kind \in {"post_like", "post_like_undo"} THEN post[t.target].community
    ELSE post[reply[t.target].post].community

FanoutDestinations(t) ==
    (IF FanoutTarget(t).local \/ FanoutTarget(t).author = None THEN {}
     ELSE {<<Unwrap(person[Unwrap(FanoutTarget(t).author)].ap_id)[1], "inbox", 0>>})
    \cup (IF community[FanoutCommunity(t)].local THEN {}
          ELSE community[FanoutCommunity(t)].inbox)

NewTasks == SubSeq(task', Len(task) + 1, Len(task'))

NewDeliveries == {i \in DOMAIN NewTasks : NewTasks[i].kind = "DeliverToInbox"}

NewForwards == {i \in DOMAIN NewTasks : NewTasks[i].kind # "DeliverToInbox"}

FederationRuns(t) ==
    /\ t \in BagToSet(spawned)
    /\ t.kind \in FederationKinds
    /\ spawned' = spawned (-) SetToBag({t})

\* C34: the federation of a local like or unlike queues one DeliverToInbox,
\* signed as the liking person, for each distinct inbox among the remote
\* target author's and the remote community's, and queues the forward to
\* the community's followers exactly when the community is local.
C34_LikeDestinations ==
    [][\A t \in BagToSet(spawned) : FederationRuns(t) =>
          /\ {NewTasks[i].inbox : i \in NewDeliveries}
                 = {Some(d) : d \in FanoutDestinations(t)}
          /\ Cardinality(NewDeliveries) = Cardinality(FanoutDestinations(t))
          /\ \A i \in NewDeliveries : NewTasks[i].sign_as = <<"person", t.user>>
          /\ Cardinality(NewForwards) = IF community[FanoutCommunity(t)].local THEN 1 ELSE 0
          /\ \A i \in NewForwards :
                 /\ NewTasks[i].kind = "DeliverToFollowers"
                 /\ NewTasks[i].sign_as = <<"community", FanoutCommunity(t)>>]_vars

\* A like and its Undo were each delivered to two hosts, and a like of a
\* target whose author and community share an inbox was delivered once.
C34_Witness ==
    /\ Cardinality({task[i].inbox : i \in {j \in DOMAIN task : task[j].kind = "DeliverToInbox"}}) = 2
    /\ \E i, j \in DOMAIN task : task[i].kind = "DeliverToInbox" /\ task[j].kind = "DeliverToInbox"
          /\ task[i].inbox # task[j].inbox /\ task[i].object = task[j].object
          /\ task[i].object[1] = "Undo"
    /\ \E i \in DOMAIN task : task[i].kind = "DeliverToInbox"
          /\ Cardinality({j \in DOMAIN task : task[j].object = task[i].object}) = 1

(***************************************************************************)
(* The balance of likes and undos of one user and one post.  In the posts   *)
(* of the like and unlike specification every post has one destination, so  *)
(* each Like or Undo that was built is one row of the task table.           *)
(***************************************************************************)
LikeRowsBalanced(p, u) ==
    LikesInserted("posts_like", p, u) - Cardinality(UndoRowsOf(local_post_like_undo, "post", p, u))
        = CopiesIn(<<p, u>>, post_like)

UndoActivityRows(p, u) ==
    {i \in DOMAIN task : /\ task[i].object[1] = "Undo"
                         /\ task[i].object[2] = get_local_person_apub_id(u)
                         /\ task[i].object[3] = <<HostUrlApub, "posts", p>>}

ActivitiesBalanced(p, u) ==
    Cardinality(LikeRows(PostApId(p), u)) - Cardinality(UndoActivityRows(p, u)) \in {0, 1}

\* The posts and users without a like from before the first request.
FreshLikePairs == {pu \in (DOMAIN post) \X LocalUserIds : ~BagIn(pu, InitPostLikes)}

\* The requests of u that inserted a like row for p, less the undo rows for
\* (p, u), are 1 when the like row (p, u) exists and 0 when it does not.
LikeRowsAlwaysBalanced == \A pu \in FreshLikePairs : LikeRowsBalanced(pu[1], pu[2])

\* C35: the rows balance as above and, likewise, the Like activities built
\* for (p, u) less the Undo activities built are 0 or 1.
C35_LikesMinusUndos ==
    \A pu \in FreshLikePairs :
        LikeRowsBalanced(pu[1], pu[2]) /\ ActivitiesBalanced(pu[1], pu[2])

(***************************************************************************)
(* Repeated deletes.                                                       *)
(***************************************************************************)
DeleteOps == {"posts_delete", "comments_delete"}

\* The DELETE requests for one object that were answered 204.
DeleteReturned(op, target) ==
    {r \in BagToSet(requests) : r.op = op /\ r.target = target /\ r.pc = "done" /\ r.status = 204}

\* The request that arrives in this step.
DeleteArrives(r) ==
    /\ r.op \in DeleteOps
    /\ BagCardinality(requests') > BagCardinality(requests)
    /\ CopiesIn(r, requests') > CopiesIn(r, requests)

\* A DELETE by a logged-in user that arrives after a DELETE of the same
\* object has returned 204 is answered 204, writes no row and spawns nothing.
LaterDeleteNoEffect ==
    \A r \in BagToSet(requests') :
        (DeleteArrives(r) /\ r.user # None /\ DeleteReturned(r.op, r.target) # {})
            => /\ r.pc = "done" /\ r.status = 204
               /\ UNCHANGED <<post, reply, task, spawned>>

\* How often the Delete activity d was built: by a future still to run, by
\* an enqueue still to run, or as a row of the task table.
TimesDeleteBuilt(d) ==
    BagSum(spawned, {t \in BagToSet(spawned) : t.kind = "delete" /\ t.delete_ap = d})
    + BagSum(spawned, {t \in BagToSet(spawned) : t.kind = "enqueue_task" /\ t.row.object = d})
    + Cardinality({i \in DOMAIN task : task[i].object = d})

DeleteFederatedOnce == \A d \in DeletesBuilt : TimesDeleteBuilt(d) <= 1

\* The first half alone, for every step.
LaterDeletesIdempotent == [][LaterDeleteNoEffect]_vars

\* C36: once a DELETE of a post or comment has returned 204, every later
\* DELETE of it by a logged-in user returns 204, changes no row and
\* enqueues no Delete, and a Delete is federated at most once per object.
C36_DeleteIdempotent == [][LaterDeleteNoEffect /\ DeleteFederatedOnce']_vars

(***************************************************************************)
(* Properties of the login check.                                          *)
(***************************************************************************)
\* The bearer tokens that are well-formed uuids of a row of the login table.
ValidTokens == {token \in Tokens : is_uuid(token) /\ token \in DOMAIN login}

\* A request with this token arrives at one of the operations that write.
AuthArrives(token) ==
    \/ AuthPostsCreate(token)
    \/ AuthPostsDelete(token)
    \/ AuthCommentsDelete(token)
    \/ AuthPostsLike(token)
    \/ AuthCommentsLike(token)
    \/ AuthPostsUnlike(token)
    \/ AuthCommentsUnlike(token)
    \/ AuthPostsRepliesCreate(token)
    \/ AuthCommentsRepliesCreate(token)
    \/ AuthUsersMePatch(token)

\* The answers the operations give to this token, whatever else is asked.
AuthAnswers(token) ==
    {posts_create_result(token, AuthPostBody), posts_delete_result(token, 1),
     comments_delete_result(token, 1)}
    \cup {posts_replies_create_result(token, 1, body) : body \in ReplyBodies}
    \cup {comments_replies_create_result(token, 1, body) : body \in ReplyBodies}
    \cup {users_me_patch_result(token, body) : body \in UsersEditBodies}

\* The like, unlike and delete requests that arrive in this step.
ArrivedRequests ==
    {r \in BagToSet(requests') : /\ BagCardinality(requests') > BagCardinality(requests)
                                 /\ CopiesIn(r, requests') > CopiesIn(r, requests)}

LoginRequired ==
    \A token \in Tokens \ ValidTokens :
        /\ AuthAnswers(token) = {UserError(401)}
        /\ AuthArrives(token) =>
              /\ UNCHANGED <<dbvars, spawned>>
              /\ \A r \in ArrivedRequests : r.pc = "done" /\ r.status = 401 /\ r.user = None
              /\ last' # last => last'.status = 401

\* Every row this step writes, deletes or marks deleted, and every task it
\* starts for a user, is user u's.
StepActsAs(u) ==
    /\ \A i \in DOMAIN post' : (i \notin DOMAIN post \/ post'[i] # post[i]) => post'[i].author = Some(u)
    /\ \A i \in DOMAIN reply' : (i \notin DOMAIN reply \/ reply'[i] # reply[i]) => reply'[i].author = Some(u)
    /\ \A i \in DOMAIN person : person'[i] # person[i] => i = u
    /\ \A x \in BagToSet(post_like) \cup BagToSet(post_like') :
          CopiesIn(x, post_like') # CopiesIn(x, post_like) => x[2] = u
    /\ \A x \in BagToSet(reply_like) \cup BagToSet(reply_like') :
          CopiesIn(x, reply_like') # CopiesIn(x, reply_like) => x[2] = u
    /\ \A i \in DOMAIN local_post_like_undo' \ DOMAIN local_post_like_undo :
          local_post_like_undo'[i].person = u
    /\ \A i \in DOMAIN local_reply_like_undo' \ DOMAIN local_reply_like_undo :
          local_reply_like_undo'[i].person = u
    /\ \A t \in BagToSet(spawned') :
          CopiesIn(t, spawned') > CopiesIn(t, spawned) =>
              /\ "user" \in DOMAIN t => t.user = u
              /\ "comment" \in DOMAIN t => t.comment.author = Some(u)

\* The request that takes its next step.
AuthContinues(r) ==
    /\ BagCardinality(requests') = BagCardinality(requests)
    /\ CopiesIn(r, requests') < CopiesIn(r, requests)

ActsAsTokenOwner ==
    /\ \A token \in ValidTokens :
          AuthArrives(token) =>
              /\ StepActsAs(login[token])
              /\ \A r \in ArrivedRequests : r.user = Some(login[token])
              /\ last' # last => last'.user = Some(login[token])
    /\ \A r \in BagToSet(requests) :
          AuthContinues(r) => r.user # None /\ StepActsAs(Unwrap(r.user))

\* C37: create post, delete post or comment, like, unlike, create reply and
\* patch of the own profile, called without a bearer token that is a uuid
\* of the login table, answer 401, write nothing and start no task; called
\* with one, they act as the person the token was issued to.
C37_LoginRequired == [][LoginRequired /\ ActsAsTokenOwner]_vars

\* A request without a login was refused with 401 and a request of a user
\* who is logged in has written its row.
C37_Witness ==
    /\ \E r \in BagToSet(requests) : r.user = None /\ r.pc = "done" /\ r.status = 401
    /\ \E r \in BagToSet(requests) : r.user # None /\ r.pc = "done" /\ r.inserted

(***************************************************************************)
(* Properties of the body check of reply creation.                         *)
(***************************************************************************)
ReplyCreateOps == {"posts_replies_create", "comments_replies_create"}

\* The request answered in this step, if it is a reply creation.
ReplyCreateStep == nreq' = nreq + 1 /\ last'.op \in ReplyCreateOps

\* A body that parses and carries both content fields or neither.
BothOrNeither(body) == ~body.malformed /\ body.content_markdown = body.content_text

\* C38: a reply creation on a post or on a comment whose body carries both
\* of content_markdown and content_text or neither is not accepted: it
\* inserts no reply row, creates no notification and starts no federation,
\* and the logged-in sender is answered 400; a request is answered 200 only
\* with exactly one of the two.
C38_ExactlyOneContent ==
    [][ReplyCreateStep =>
          /\ BothOrNeither(last'.body) =>
                /\ UNCHANGED <<reply, notification, task, spawned>>
                /\ last'.user # None => last'.status = 400
          /\ last'.status = 200 =>
                /\ ~last'.body.malformed
                /\ last'.body.content_markdown # last'.body.content_text
                /\ Len(reply') = Len(reply) + 1]_vars

\* A logged-in user's reply with both content fields has just been refused
\* with 400 after an earlier reply was stored and its futures have run.
C38_Witness ==
    /\ last.op \in ReplyCreateOps
    /\ last.user # None
    /\ last.body.content_markdown /\ last.body.content_text
    /\ last.status = 400
    /\ Len(reply) = 1
    /\ spawned = EmptyBag

=============================================================================
